---- MODULE Spec2Model ----
(***************************************************************************)
(* A model of the calendrical core of bazi-insights: the lunisolar         *)
(* calendar (lunarCalendar), the daylight-saving table (dst) and the       *)
(* year / month / day pillar derivation.                                   *)
(*                                                                         *)
(* A JavaScript Date is a millisecond timestamp.  Timestamps of the years  *)
(* 1900-2100 do not fit the model checker's integers, so a Date is the     *)
(* pair [day, ms]: whole days since 1970-01-01 (floor) and the millisecond *)
(* of that day; getTime() is day * 86400000 + ms.                          *)
(***************************************************************************)
EXTENDS Integers, Sequences, FiniteSets, TLC

VARIABLES
  pc,               \* which calls of the session have been made
  \* -- lunar calendar sessions
  civil,            \* a civil Date: input of solarToLunar or result of lunarToSolar
  lunar,            \* a LunarDate: input of lunarToSolar or result of solarToLunar
  civilBack,        \* lunarToSolar applied to the result of solarToLunar
  lunarBack,        \* solarToLunar applied to the result of lunarToSolar
  lunarNext,        \* a second LunarDate handed to lunarToSolar
  civilNext,        \* the result of that second call
  \* -- daylight-saving sessions
  dstDate,          \* the Date handed to isDSTActive / applyDSTCorrection
  userConfirmedDST, \* the flag handed to applyDSTCorrection
  dstActive,        \* result of isDSTActive(dstDate)
  dstCorrected,     \* result of applyDSTCorrection(dstDate, userConfirmedDST)
  \* -- pillar sessions
  hostOffset,       \* the host's time-zone offset in ms (local = UTC + hostOffset)
  trueSolarTime,    \* the instant handed to the pillar functions
  solarTerms,       \* the SolarTerm list handed to them
  yearPillar,       \* result of calculateYearPillar
  yearStem,         \* the year stem handed to calculateMonthPillar
  monthPillar,      \* result of calculateMonthPillar
  dayPillar,        \* results of calculateDayPillar, per earlyRatSplit
  \* -- sessions on the sixty-pillar cycle
  effectiveYear,    \* the year handed to getYearPillar
  yearPillarLater,  \* result of getYearPillar(effectiveYear + 60)
  stemOffset,       \* the month offset handed to calculateMonthStem
  monthStem,        \* result of calculateMonthStem(yearStem, stemOffset)
  dayPillarNext,    \* calculateDayPillar(trueSolarTime + 1 day, false)
  dayPillarCycle,   \* calculateDayPillar(trueSolarTime + 60 days, false)
  \* -- true-solar-time sessions
  birthTime,        \* the Date handed to calculateTrueSolarTime
  birthLongitude,   \* the longitude handed to it
  solarTimeResult,  \* its TrueSolarTimeResult
  \* -- solar-term sessions
  termYear,         \* the year handed to getSolarTermMoment / getAllSolarTerms
  termAsked,        \* the term index handed to getSolarTermMoment
  termSkew,         \* how far the solver's solutions lie from its estimates
  termMoment,       \* result of getSolarTermMoment
  allTerms,         \* result of getAllSolarTerms
  jieQiDate,        \* the Date handed to findPrevNextJieQi
  prevNext,         \* result of findPrevNextJieQi
  \* -- sessions on the lunar tables and on delta T
  tableYear,        \* the year handed to getLunarYearDays / getSpringFestivalDate
  lunarYearDays,    \* result of getLunarYearDays(tableYear)
  festivalDate,     \* result of getSpringFestivalDate(tableYear)
  festivalDateNext, \* result of getSpringFestivalDate(tableYear + 1)
  deltaYear,        \* the year handed to deltaT
  deltaAt,          \* result of deltaT(deltaYear), in microseconds
  deltaBefore       \* what deltaT approaches as its argument rises to deltaYear

lunarVars == <<civil, lunar, civilBack, lunarBack, lunarNext, civilNext>>
dstVars == <<dstDate, userConfirmedDST, dstActive, dstCorrected>>
pillarVars == <<hostOffset, trueSolarTime, solarTerms, yearPillar, yearStem,
                monthPillar, dayPillar>>
cycleVars == <<effectiveYear, yearPillarLater, stemOffset, monthStem,
               dayPillarNext, dayPillarCycle>>
solarTimeVars == <<birthTime, birthLongitude, solarTimeResult>>
termVars == <<termYear, termAsked, termSkew, termMoment, allTerms, jieQiDate,
              prevNext>>
tableVars == <<tableYear, lunarYearDays, festivalDate, festivalDateNext,
               deltaYear, deltaAt, deltaBefore>>
vars == <<pc, lunarVars, dstVars, pillarVars, cycleVars, solarTimeVars,
          termVars, tableVars>>

\* A variable that holds no value yet.
None == [status |-> "none"]

(***************************************************************************)
(* Date arithmetic of the host: Date.UTC and the getUTC* accessors         *)
(***************************************************************************)
MS_PER_DAY == 86400000

\* Date.UTC(year, month - 1, day) / 86400000 for a valid civil date
\* (proleptic Gregorian calendar, as ECMAScript's MakeDay).
DaysFromCivil(year, month, day) ==
  LET y   == IF month <= 2 THEN year - 1 ELSE year
      era == y \div 400
      yoe == y - era * 400
      mp  == (month + 9) % 12
      doy == (153 * mp + 2) \div 5 + day - 1
      doe == yoe * 365 + yoe \div 4 - yoe \div 100 + doy
  IN  era * 146097 + doe - 719468

\* getUTCFullYear / getUTCMonth + 1 / getUTCDate of the day number z.
CivilFromDays(z) ==
  LET s   == z + 719468
      era == s \div 146097
      doe == s - era * 146097
      yoe == (doe - doe \div 1460 + doe \div 36524 - doe \div 146096) \div 365
      doy == doe - (365 * yoe + yoe \div 4 - yoe \div 100)
      mp  == (5 * doy + 2) \div 153
      d   == doy - (153 * mp + 2) \div 5 + 1
      m   == IF mp < 10 THEN mp + 3 ELSE mp - 9
      y   == yoe + era * 400
  IN  [year |-> IF m <= 2 THEN y + 1 ELSE y, month |-> m, day |-> d]

\* new Date(Date.UTC(year, month - 1, day)); Date.UTC reads a year of 0..99
\* as 1900 + year.
DateUTC(year, month, day) ==
  LET fullYear == IF year \in 0..99 THEN 1900 + year ELSE year
  IN  [day |-> DaysFromCivil(fullYear, month, day), ms |-> 0]

getUTCFullYear(date) == CivilFromDays(date.day).year

\* a.getTime() < b.getTime(), a.getTime() <= b.getTime()
Before(a, b) == a.day < b.day \/ (a.day = b.day /\ a.ms < b.ms)
NotAfter(a, b) == a.day < b.day \/ (a.day = b.day /\ a.ms <= b.ms)

\* new Date(date.getTime() + n * 86400000) for a day count n
AddDays(date, n) == [day |-> date.day + n, ms |-> date.ms]

\* new Date(date.getTime() + n) for a millisecond count n
AddMs(date, n) ==
  LET total == date.ms + n
  IN  [day |-> date.day + total \div MS_PER_DAY, ms |-> total % MS_PER_DAY]

(***************************************************************************)
(* lunarCalendar: the two tables                                           *)
(***************************************************************************)
LUNAR_INFO == <<
  \h04bd8, \h04ae0, \h0a570, \h054d5, \h0d260, \h0d950,
  \h16554, \h056a0, \h09ad0, \h055d2, \h04ae0, \h0a5b6,
  \h0a4d0, \h0d250, \h1d255, \h0b540, \h0d6a0, \h0ada2,
  \h095b0, \h14977, \h04970, \h0a4b0, \h0b4b5, \h06a50,
  \h06d40, \h1ab54, \h02b60, \h09570, \h052f2, \h04970,
  \h06566, \h0d4a0, \h0ea50, \h16a95, \h05ad0, \h02b60,
  \h186e3, \h092e0, \h1c8d7, \h0c950, \h0d4a0, \h1d8a6,
  \h0b550, \h056a0, \h1a5b4, \h025d0, \h092d0, \h0d2b2,
  \h0a950, \h0b557, \h06ca0, \h0b550, \h15355, \h04da0,
  \h0a5b0, \h14573, \h052b0, \h0a9a8, \h0e950, \h06aa0,
  \h0aea6, \h0ab50, \h04b60, \h0aae4, \h0a570, \h05260,
  \h0f263, \h0d950, \h05b57, \h056a0, \h096d0, \h04dd5,
  \h04ad0, \h0a4d0, \h0d4d4, \h0d250, \h0d558, \h0b540,
  \h0b6a0, \h195a6, \h095b0, \h049b0, \h0a974, \h0a4b0,
  \h0b27a, \h06a50, \h06d40, \h0af46, \h0ab60, \h09570,
  \h04af5, \h04970, \h064b0, \h074a3, \h0ea50, \h06b58,
  \h05ac0, \h0ab60, \h096d5, \h092e0, \h0c960, \h0d954,
  \h0d4a0, \h0da50, \h07552, \h056a0, \h0abb7, \h025d0,
  \h092d0, \h0cab5, \h0a950, \h0b4a0, \h0baa4, \h0ad50,
  \h055d9, \h04ba0, \h0a5b0, \h15176, \h052b0, \h0a930,
  \h07954, \h06aa0, \h0ad50, \h05b52, \h04b60, \h0a6e6,
  \h0a4e0, \h0d260, \h0ea65, \h0d530, \h05aa0, \h076a3,
  \h096d0, \h04afb, \h04ad0, \h0a4d0, \h1d0b6, \h0d250,
  \h0d520, \h0dd45, \h0b5a0, \h056d0, \h055b2, \h049b0,
  \h0a577, \h0a4b0, \h0aa50, \h1b255, \h06d20, \h0ada0,
  \h14b63, \h09370, \h049f8, \h04970, \h064b0, \h168a6,
  \h0ea50, \h06aa0, \h1a6c4, \h0aae0, \h092e0, \h0d2e3,
  \h0c960, \h0d557, \h0d4a0, \h0da50, \h05d55, \h056a0,
  \h0a6d0, \h055d4, \h052d0, \h0a9b8, \h0a950, \h0b4a0,
  \h0b6a6, \h0ad50, \h055a0, \h0aba4, \h0a5b0, \h052b0,
  \h0b273, \h06930, \h07337, \h06aa0, \h0ad50, \h14b55,
  \h04b60, \h0a570, \h054e4, \h0d160, \h0e968, \h0d520,
  \h0daa0, \h16aa6, \h056d0, \h04ae0, \h0a9d4, \h0a4d0,
  \h0d150, \h0f252, \h0d520
>>

SPRING_FESTIVAL == <<
  131, 219, 208, 129, 216, 204, 125, 213, 202, 121,
  210, 130, 218, 206, 126, 214, 203, 123, 211, 201,
  220, 208, 128, 216, 205, 124, 213, 202, 123, 210,
  130, 217, 206, 126, 214, 204, 124, 211, 131, 219,
  208, 127, 215, 205, 125, 213, 202, 122, 210, 129,
  217, 206, 127, 214, 203, 124, 212, 131, 218, 208,
  128, 215, 205, 125, 213, 202, 121, 209, 130, 217,
  206, 127, 215, 203, 123, 211, 131, 218, 207, 128,
  216, 205, 125, 213, 202, 220, 209, 129, 217, 206,
  127, 215, 204, 123, 210, 131, 219, 207, 128, 216,
  205, 124, 212, 201, 122, 209, 129, 218, 207, 126,
  214, 203, 123, 210, 131, 219, 208, 128, 216, 205,
  125, 212, 201, 122, 210, 129, 217, 206, 126, 213,
  203, 123, 211, 131, 219, 208, 128, 215, 204, 124,
  212, 201, 122, 210, 130, 217, 206, 126, 214, 202,
  123, 211, 201, 119, 208, 128, 215, 204, 124, 212,
  202, 121, 210, 129, 217, 205, 126, 214, 203, 123,
  211, 131, 219, 208, 127, 215, 205, 124, 212, 202,
  121, 209, 129, 217, 206, 126, 214, 203, 124, 211,
  131, 218, 207, 127, 215, 204, 125, 212, 202, 121,
  209
>>

\* JavaScript's x & mask for a one-bit mask 2^bit: zero or not.
BitSet(x, bit) == (x \div (2 ^ bit)) % 2 = 1

\* LUNAR_INFO[year - 1900] as the bit operators see it: a read outside the
\* table yields undefined, which & coerces to 0.
LunarInfoBits(year) ==
  IF year - 1900 + 1 \in DOMAIN LUNAR_INFO THEN LUNAR_INFO[year - 1900 + 1] ELSE 0

getLeapMonthInternal(year) == LunarInfoBits(year) % 16

getLeapMonthDays(year) ==
  IF getLeapMonthInternal(year) = 0 THEN 0
  ELSE IF BitSet(LunarInfoBits(year), 4) THEN 30 ELSE 29

\* 0x10000 >> (month - 1) is bit 16 - (month - 1)
getMonthDays(year, month) ==
  IF BitSet(LunarInfoBits(year), 16 - (month - 1)) THEN 30 ELSE 29

RECURSIVE SumMonthDays(_, _)
SumMonthDays(year, m) ==
  IF m > 12 THEN 0 ELSE getMonthDays(year, m) + SumMonthDays(year, m + 1)

getLunarYearDays(year) == SumMonthDays(year, 1) + getLeapMonthDays(year)

\* A Date built from NaN fields (SPRING_FESTIVAL read outside the table).
InvalidDate == [invalid |-> TRUE]
IsInvalidDate(date) == "invalid" \in DOMAIN date

getSpringFestivalDate(year) ==
  IF year - 1900 + 1 \in DOMAIN SPRING_FESTIVAL
  THEN LET code == SPRING_FESTIVAL[year - 1900 + 1]
       IN  DateUTC(year, code \div 100, code % 100)
  ELSE InvalidDate

\* d2 - d1 in days, date parts only
daysBetween(d1, d2) == d2.day - d1.day

(***************************************************************************)
(* lunarCalendar: the conversions.  A call ends "returned" with a value,   *)
(* "thrown" with an error, or, for solarToLunar, "returnedNaN": a          *)
(* LunarDate whose day is NaN (the value then carries no day field).       *)
(***************************************************************************)
Returned(v) == [status |-> "returned", value |-> v]
Thrown(msg) == [status |-> "thrown", error |-> msg]

\* The month loop of solarToLunar from month m on; month 0 when the loop
\* runs out of months.
RECURSIVE WalkMonths(_, _, _)
WalkMonths(lunarYear, m, offset) ==
  IF m > 12 THEN [month |-> 0, isLeapMonth |-> FALSE, offset |-> offset]
  ELSE LET days == getMonthDays(lunarYear, m)
       IN  IF offset < days
           THEN [month |-> m, isLeapMonth |-> FALSE, offset |-> offset]
           ELSE IF getLeapMonthInternal(lunarYear) = m
                THEN LET leapDays == getLeapMonthDays(lunarYear)
                     IN  IF offset - days < leapDays
                         THEN [month |-> m, isLeapMonth |-> TRUE,
                               offset |-> offset - days]
                         ELSE WalkMonths(lunarYear, m + 1, offset - days - leapDays)
                ELSE WalkMonths(lunarYear, m + 1, offset - days)

solarToLunar(date) ==
  LET solarYear == getUTCFullYear(date)
      inputDate == [day |-> date.day, ms |-> 0]
      springFestival == getSpringFestivalDate(solarYear)
      lunarYear == IF NotAfter(springFestival, inputDate)
                   THEN solarYear ELSE solarYear - 1
      yearSpringFestival == getSpringFestivalDate(lunarYear)
  IN  IF solarYear < 1900 \/ solarYear > 2100
      THEN Thrown("date out of range")
      ELSE IF IsInvalidDate(yearSpringFestival)
      \* offset is NaN: no comparison succeeds, the loop finds no month
      THEN [status |-> "returnedNaN",
            value |-> [year |-> lunarYear, month |-> 12, isLeapMonth |-> FALSE]]
      ELSE LET offset == daysBetween(yearSpringFestival, inputDate)
               found == WalkMonths(lunarYear, 1, offset)
           IN  IF offset < 0
               THEN Thrown("negative offset")
               ELSE Returned([year |-> lunarYear,
                              month |-> IF found.month = 0 THEN 12 ELSE found.month,
                              day |-> found.offset + 1,
                              isLeapMonth |-> found.isLeapMonth])

\* Variant of lunarToSolarError that omits the leap-month existence check.
lunarToSolarErrorNoLeapCheck(lunarDate) ==
  LET year == lunarDate.year
      month == lunarDate.month
  IN  IF year < 1900 \/ year > 2100 THEN "year out of range"
      ELSE IF month < 1 \/ month > 12 THEN "invalid month"
      ELSE IF lunarDate.day < 1 \/ lunarDate.day > 30 THEN "invalid day"
      ELSE IF lunarDate.day > (IF lunarDate.isLeapMonth
                               THEN getLeapMonthDays(year)
                               ELSE getMonthDays(year, month))
           THEN "day exceeds month"
      ELSE ""

\* The validation of lunarToSolar: the message of the error it throws, or
\* "" when the LunarDate passes.
lunarToSolarError(lunarDate) ==
  LET year == lunarDate.year
      month == lunarDate.month
      leapMonth == getLeapMonthInternal(year)
  IN  IF year < 1900 \/ year > 2100 THEN "year out of range"
      ELSE IF month < 1 \/ month > 12 THEN "invalid month"
      ELSE IF lunarDate.day < 1 \/ lunarDate.day > 30 THEN "invalid day"
      ELSE IF lunarDate.isLeapMonth /\ leapMonth # month THEN "no such leap month"
      ELSE IF lunarDate.day > (IF lunarDate.isLeapMonth
                               THEN getLeapMonthDays(year)
                               ELSE getMonthDays(year, month))
           THEN "day exceeds month"
      ELSE ""

RECURSIVE DaysBeforeMonth(_, _, _)
DaysBeforeMonth(year, month, m) ==
  IF m >= month THEN 0
  ELSE getMonthDays(year, m)
       + (IF getLeapMonthInternal(year) = m THEN getLeapMonthDays(year) ELSE 0)
       + DaysBeforeMonth(year, month, m + 1)

\* Variant of lunarOffset that does not skip the ordinary month before its
\* leap month.
lunarOffsetNoOrdinaryMonth(lunarDate) ==
  DaysBeforeMonth(lunarDate.year, lunarDate.month, 1) + (lunarDate.day - 1)

\* The day offset of a valid LunarDate from its year's spring festival.
lunarOffset(lunarDate) ==
  DaysBeforeMonth(lunarDate.year, lunarDate.month, 1)
  + (IF lunarDate.isLeapMonth
     THEN getMonthDays(lunarDate.year, lunarDate.month) ELSE 0)
  + (lunarDate.day - 1)

lunarToSolar(lunarDate) ==
  IF lunarToSolarError(lunarDate) # ""
  THEN Thrown(lunarToSolarError(lunarDate))
  ELSE LET springFestival == getSpringFestivalDate(lunarDate.year)
       IN  Returned([day |-> springFestival.day + lunarOffset(lunarDate),
                     ms |-> springFestival.ms])

(***************************************************************************)
(* dst: the daylight-saving table and its two functions                    *)
(***************************************************************************)
MS_PER_HOUR == 3600000

\* new Date(Date.UTC(year, month - 1, day, hour, 0, 0))
DateUTCHour(year, month, day, hour) ==
  [day |-> DaysFromCivil(year, month, day), ms |-> hour * MS_PER_HOUR]

DST_TABLE == <<
  [year |-> 1986, start |-> DateUTCHour(1986, 5, 4, 2),
                  end   |-> DateUTCHour(1986, 9, 14, 2)],
  [year |-> 1987, start |-> DateUTCHour(1987, 4, 12, 2),
                  end   |-> DateUTCHour(1987, 9, 13, 2)],
  [year |-> 1988, start |-> DateUTCHour(1988, 4, 10, 2),
                  end   |-> DateUTCHour(1988, 9, 11, 2)],
  [year |-> 1989, start |-> DateUTCHour(1989, 4, 16, 2),
                  end   |-> DateUTCHour(1989, 9, 17, 2)],
  [year |-> 1990, start |-> DateUTCHour(1990, 4, 15, 2),
                  end   |-> DateUTCHour(1990, 9, 16, 2)],
  [year |-> 1991, start |-> DateUTCHour(1991, 4, 14, 2),
                  end   |-> DateUTCHour(1991, 9, 15, 2)]
>>

\* DST_TABLE.find((e) => e.year === year): the index of the first match, 0 if none
FindEntry(year) ==
  LET hits == {i \in DOMAIN DST_TABLE : DST_TABLE[i].year = year}
  IN  IF hits = {} THEN 0 ELSE CHOOSE i \in hits : \A j \in hits : i <= j

\* Variant of isDSTActive whose window is closed at its end.
isDSTActiveClosedEnd(d) ==
  LET year == getUTCFullYear(d)
  IN  IF year < 1986 \/ year > 1991 THEN FALSE
      ELSE IF FindEntry(year) = 0 THEN FALSE
      ELSE LET entry == DST_TABLE[FindEntry(year)]
           IN  NotAfter(entry.start, d) /\ NotAfter(d, entry.end)

isDSTActive(d) ==
  LET year == getUTCFullYear(d)
  IN  IF year < 1986 \/ year > 1991 THEN FALSE
      ELSE IF FindEntry(year) = 0 THEN FALSE
      ELSE LET entry == DST_TABLE[FindEntry(year)]
           IN  NotAfter(entry.start, d) /\ Before(d, entry.end)

\* Variant of applyDSTCorrection that ignores the user's confirmation.
applyDSTCorrectionUnconfirmed(d, confirmed) ==
  IF isDSTActive(d) THEN AddMs(d, 0 - 60 * 60 * 1000) ELSE d

applyDSTCorrection(d, confirmed) ==
  IF confirmed /\ isDSTActive(d) THEN AddMs(d, 0 - 60 * 60 * 1000) ELSE d

(***************************************************************************)
(* yearPillar                                                              *)
(***************************************************************************)
\* jia yi bing ding wu ji geng xin ren gui
HEAVENLY_STEMS ==
  <<"jia", "yi", "bing", "ding", "wu", "ji", "geng", "xin", "ren", "gui">>

\* zi chou yin mao chen si wu wei shen you xu hai
EARTHLY_BRANCHES ==
  <<"zi", "chou", "yin", "mao", "chen", "si", "wu", "wei", "shen", "you",
    "xu", "hai">>

LICHUN_INDEX == 2

\* JavaScript's a % n for n > 0: the remainder takes the sign of a.
JsRem(a, n) == IF a >= 0 THEN a % n ELSE 0 - ((0 - a) % n)

\* HEAVENLY_STEMS[i], EARTHLY_BRANCHES[i]: undefined outside the array.
ElementAt(array, i) ==
  IF i + 1 \in DOMAIN array THEN array[i + 1] ELSE "undefined"

\* Variant of getYearPillar that keeps JavaScript's signed remainder.
getYearPillarSigned(year) ==
  [stem |-> ElementAt(HEAVENLY_STEMS, JsRem(year - 4, 10)),
   branch |-> ElementAt(EARTHLY_BRANCHES, JsRem(year - 4, 12))]

getYearPillar(year) ==
  LET stemIndex == (JsRem(year - 4, 10) + 10) % 10
      branchIndex == (JsRem(year - 4, 12) + 12) % 12
  IN  [stem |-> HEAVENLY_STEMS[stemIndex + 1],
       branch |-> EARTHLY_BRANCHES[branchIndex + 1]]

\* getFullYear(): the year of the host's local time.
getFullYear(d, offset) == getUTCFullYear(AddMs(d, offset))

\* Variant of findLichunMoment that takes the first Start of Spring of the
\* list, whatever its year.
findLichunMomentAnyYear(terms, year, offset) ==
  LET hits == {k \in DOMAIN terms : terms[k].index = LICHUN_INDEX}
  IN  IF hits = {} THEN <<>>
      ELSE <<terms[CHOOSE k \in hits : \A j \in hits : k <= j].moment>>

\* The first term of the list that is a Start of Spring of the year, as a
\* one-element sequence; empty when there is none (null).
findLichunMoment(terms, year, offset) ==
  LET hits == {k \in DOMAIN terms :
                 /\ terms[k].index = LICHUN_INDEX
                 /\ getFullYear(terms[k].moment, offset) = year}
  IN  IF hits = {} THEN <<>>
      ELSE <<terms[CHOOSE k \in hits : \A j \in hits : k <= j].moment>>

\* Variant of calculateYearPillar that switches only after the Start of Spring.
calculateYearPillarStrict(t, terms, offset) ==
  LET year == getFullYear(t, offset)
      lichunMoment == findLichunMoment(terms, year, offset)
  IN  IF lichunMoment = <<>>
      THEN Thrown("no lichun for the year")
      ELSE Returned(getYearPillar(IF Before(lichunMoment[1], t)
                                  THEN year ELSE year - 1))

calculateYearPillar(t, terms, offset) ==
  LET year == getFullYear(t, offset)
      lichunMoment == findLichunMoment(terms, year, offset)
  IN  IF lichunMoment = <<>>
      THEN Thrown("no lichun for the year")
      ELSE Returned(getYearPillar(IF NotAfter(lichunMoment[1], t)
                                  THEN year ELSE year - 1))

(***************************************************************************)
(* monthPillar                                                             *)
(***************************************************************************)
JIE_TO_MONTH_BRANCH ==
  (2 :> "yin") @@ (4 :> "mao") @@ (6 :> "chen") @@ (8 :> "si")
  @@ (10 :> "wu") @@ (12 :> "wei") @@ (14 :> "shen") @@ (16 :> "you")
  @@ (18 :> "xu") @@ (20 :> "hai") @@ (22 :> "zi") @@ (0 :> "chou")

MONTH_BRANCHES ==
  <<"yin", "mao", "chen", "si", "wu", "wei", "shen", "you", "xu", "hai",
    "zi", "chou">>

YEAR_STEM_TO_MONTH_START ==
  ("jia" :> 2) @@ ("ji" :> 2) @@ ("yi" :> 4) @@ ("geng" :> 4)
  @@ ("bing" :> 6) @@ ("xin" :> 6) @@ ("ding" :> 8) @@ ("ren" :> 8)
  @@ ("wu" :> 0) @@ ("gui" :> 0)

\* seq.indexOf(x), zero-based; -1 when absent
IndexOf(seq, x) ==
  LET hits == {i \in DOMAIN seq : seq[i] = x}
  IN  IF hits = {} THEN 0 - 1 ELSE (CHOOSE i \in hits : \A j \in hits : i <= j) - 1

Last(seq) == seq[Len(seq)]

\* Array.prototype.sort by moment is stable: of two terms with the same
\* moment the one that came first stays first.  MergeByMoment merges two
\* sorted arrays, every term of first ahead of the terms of second that are
\* not earlier; it moves a whole run of terms at a time.
RECURSIVE MergeByMoment(_, _)
MergeByMoment(first, second) ==
  IF first = <<>> THEN second
  ELSE IF second = <<>> \/ NotAfter(Last(first).moment, Head(second).moment)
  THEN first \o second
  ELSE LET earlier == Cardinality({k \in DOMAIN second :
                                     Before(second[k].moment, Head(first).moment)})
           notLater == Cardinality({k \in DOMAIN first :
                                      NotAfter(first[k].moment, Head(second).moment)})
       IN  IF earlier > 0
           THEN SubSeq(second, 1, earlier)
                \o MergeByMoment(first, SubSeq(second, earlier + 1, Len(second)))
           ELSE SubSeq(first, 1, notLater)
                \o MergeByMoment(SubSeq(first, notLater + 1, Len(first)), second)

RECURSIVE SortByMoment(_)
SortByMoment(terms) ==
  IF Len(terms) <= 1 THEN terms
  ELSE LET half == Len(terms) \div 2
       IN  MergeByMoment(SortByMoment(SubSeq(terms, 1, half)),
                         SortByMoment(SubSeq(terms, half + 1, Len(terms))))

\* Arrays are objects: a call gets the caller's array itself.  A heap names
\* the arrays a call can reach: "solarTerms" is the caller's list, "jieTerms"
\* the array that extractJieTerms returns.
\* Array.prototype.filter with the predicate of extractJieTerms (an even
\* index): it builds a new array and leaves its receiver alone.
ArrayFilter(heap, receiver, fresh) ==
  (fresh :> SelectSeq(heap[receiver], LAMBDA term : JsRem(term.index, 2) = 0))
  @@ heap

\* Array.prototype.sort reorders its receiver in place.
ArraySort(heap, receiver) == [heap EXCEPT ![receiver] = SortByMoment(@)]

\* Variant of extractJieTermsCall that sorts the caller's list, then filters.
extractJieTermsInPlace(terms) ==
  ArrayFilter(ArraySort([solarTerms |-> terms], "solarTerms"),
              "solarTerms", "jieTerms")

\* The heap after extractJieTerms(terms).
extractJieTermsCall(terms) ==
  ArraySort(ArrayFilter([solarTerms |-> terms], "solarTerms", "jieTerms"),
            "jieTerms")

extractJieTerms(terms) == extractJieTermsCall(terms).jieTerms

\* Variant of ScanBack that looks for a moment < t.
RECURSIVE ScanBackStrict(_, _, _)
ScanBackStrict(jieTerms, i, t) ==
  IF i = 0 THEN 0
  ELSE IF Before(jieTerms[i].moment, t) THEN i
  ELSE ScanBackStrict(jieTerms, i - 1, t)

\* The scan from the end of jieTerms for a moment <= t: the position found,
\* 0 when there is none.
RECURSIVE ScanBack(_, _, _)
ScanBack(jieTerms, i, t) ==
  IF i = 0 THEN 0
  ELSE IF NotAfter(jieTerms[i].moment, t) THEN i
  ELSE ScanBack(jieTerms, i - 1, t)

determineMonthBranch(t, jieTerms) ==
  LET found == ScanBack(jieTerms, Len(jieTerms), t)
  IN  IF found = 0 THEN Thrown("no jie at or before the instant")
      ELSE IF jieTerms[found].index \notin DOMAIN JIE_TO_MONTH_BRANCH
      THEN Thrown("not a jie index")
      ELSE LET branch == JIE_TO_MONTH_BRANCH[jieTerms[found].index]
           IN  Returned([branch |-> branch,
                         monthOffset |-> IndexOf(MONTH_BRANCHES, branch)])

\* Variant of calculateMonthStem whose month stems start one stem late.
calculateMonthStemLate(stem, monthOffset) ==
  HEAVENLY_STEMS[((YEAR_STEM_TO_MONTH_START[stem] + 1 + monthOffset) % 10) + 1]

\* Variant of calculateMonthStem that wraps after the twelve months, not
\* after the ten stems.
calculateMonthStemWrap12(stem, monthOffset) ==
  HEAVENLY_STEMS[(((YEAR_STEM_TO_MONTH_START[stem] + monthOffset) % 12) % 10) + 1]

calculateMonthStem(stem, monthOffset) ==
  HEAVENLY_STEMS[((YEAR_STEM_TO_MONTH_START[stem] + monthOffset) % 10) + 1]

calculateMonthPillar(t, stem, terms) ==
  LET jieTerms == extractJieTerms(terms)
      found == determineMonthBranch(t, jieTerms)
  IN  IF Len(jieTerms) = 0 THEN Thrown("no jie in the list")
      ELSE IF found.status = "thrown" THEN found
      ELSE Returned([stem |-> calculateMonthStem(stem, found.value.monthOffset),
                     branch |-> found.value.branch])

(***************************************************************************)
(* dayPillar                                                               *)
(***************************************************************************)
BASE_DATE == DateUTC(1900, 1, 31)

\* Variant of calculateDayPillar whose early-rat hour starts after 23.
calculateDayPillarLateSplit(t, earlyRatSplit) ==
  LET hour == t.ms \div MS_PER_HOUR
      daysDiff == (t.day - DateUTC(1900, 1, 31).day)
                  + (IF earlyRatSplit /\ hour > 23 THEN 1 ELSE 0)
      index == (JsRem(daysDiff, 60) + 60) % 60
  IN  [stem |-> HEAVENLY_STEMS[(index % 10) + 1],
       branch |-> EARTHLY_BRANCHES[(index % 12) + 1]]

\* Variant of calculateDayPillar that keeps JavaScript's signed remainder.
calculateDayPillarSigned(t, earlyRatSplit) ==
  LET hour == t.ms \div MS_PER_HOUR
      daysDiff == (t.day - DateUTC(1900, 1, 31).day)
                  + (IF earlyRatSplit /\ hour >= 23 THEN 1 ELSE 0)
      index == JsRem(daysDiff, 60)
  IN  [stem |-> ElementAt(HEAVENLY_STEMS, JsRem(index, 10)),
       branch |-> ElementAt(EARTHLY_BRANCHES, JsRem(index, 12))]

\* Variant of calculateDayPillar that counts the days from the instant itself
\* and truncates: Math.trunc((t - BASE_DATE) / MS_PER_DAY).
calculateDayPillarTrunc(t, earlyRatSplit) ==
  LET hour == t.ms \div MS_PER_HOUR
      whole == t.day - DateUTC(1900, 1, 31).day
      daysDiff == (IF whole < 0 /\ t.ms > 0 THEN whole + 1 ELSE whole)
                  + (IF earlyRatSplit /\ hour >= 23 THEN 1 ELSE 0)
      index == (JsRem(daysDiff, 60) + 60) % 60
  IN  [stem |-> HEAVENLY_STEMS[(index % 10) + 1],
       branch |-> EARTHLY_BRANCHES[(index % 12) + 1]]

\* Variant of calculateDayPillar that, for the early-rat split, also counts
\* the days from one hour after the instant.
calculateDayPillarShifted(t, earlyRatSplit) ==
  LET hour == t.ms \div MS_PER_HOUR
      shifted == IF earlyRatSplit THEN AddMs(t, MS_PER_HOUR) ELSE t
      daysDiff == (shifted.day - DateUTC(1900, 1, 31).day)
                  + (IF earlyRatSplit /\ hour >= 23 THEN 1 ELSE 0)
      index == (JsRem(daysDiff, 60) + 60) % 60
  IN  [stem |-> HEAVENLY_STEMS[(index % 10) + 1],
       branch |-> EARTHLY_BRANCHES[(index % 12) + 1]]

calculateDayPillar(t, earlyRatSplit) ==
  LET civilDay == CivilFromDays(t.day)
      hour == t.ms \div MS_PER_HOUR
      dayStart == DateUTC(civilDay.year, civilDay.month, civilDay.day)
      daysDiff == (dayStart.day - BASE_DATE.day)
                  + (IF earlyRatSplit /\ hour >= 23 THEN 1 ELSE 0)
      index == (JsRem(daysDiff, 60) + 60) % 60
  IN  [stem |-> HEAVENLY_STEMS[(index % 10) + 1],
       branch |-> EARTHLY_BRANCHES[(index % 12) + 1]]

(***************************************************************************)
(* trueSolarTime.  Minutes are floating-point numbers in the code; here a  *)
(* number of minutes is a whole number of ticks of 1 / 240000 minute (a    *)
(* quarter of a millisecond), and a longitude a whole number of            *)
(* thousandths of a degree.                                                *)
(***************************************************************************)
TICKS_PER_MS == 2 * 2
TICKS_PER_MINUTE == 60 * 1000 * TICKS_PER_MS
\* (longitude - 120) * 4 minutes, per thousandth of a degree
TICKS_PER_MILLIDEGREE == (4 * TICKS_PER_MINUTE) \div 1000

getDayOfYear(date) ==
  LET year == getUTCFullYear(date)
      civilDay == CivilFromDays(date.day)
      start == DateUTC(year, 1, 1)
      current == DateUTC(year, civilDay.month, civilDay.day)
  IN  (current.day - start.day) + 1

\* 9.87 * sin(2B) - 7.53 * cos(B) - 1.5 * sin(B) with
\* B = (360 / 365.25) * (dayOfYear - 81) degrees, for dayOfYear = 1..366,
\* in ticks (rounded to the nearest tick).
EOT_TICKS ==
  <<0 - 895113, 0 - 1001667, 0 - 1107061, 0 - 1211197, 0 - 1313980, 0 - 1415318,
    0 - 1515118, 0 - 1613289, 0 - 1709745, 0 - 1804398, 0 - 1897164, 0 - 1987961,
    0 - 2076710, 0 - 2163334, 0 - 2247756, 0 - 2329904, 0 - 2409710, 0 - 2487104,
    0 - 2562023, 0 - 2634405, 0 - 2704192, 0 - 2771326, 0 - 2835755, 0 - 2897429,
    0 - 2956301, 0 - 3012327, 0 - 3065467, 0 - 3115683, 0 - 3162941, 0 - 3207211,
    0 - 3248464, 0 - 3286676, 0 - 3321828, 0 - 3353900, 0 - 3382880, 0 - 3408755,
    0 - 3431521, 0 - 3451171, 0 - 3467706, 0 - 3481129, 0 - 3491446, 0 - 3498667,
    0 - 3502804, 0 - 3503875, 0 - 3501900, 0 - 3496900, 0 - 3488902, 0 - 3477936,
    0 - 3464034, 0 - 3447233, 0 - 3427570, 0 - 3405088, 0 - 3379832, 0 - 3351849,
    0 - 3321190, 0 - 3287909, 0 - 3252060, 0 - 3213704, 0 - 3172901, 0 - 3129716,
    0 - 3084214, 0 - 3036464, 0 - 2986536, 0 - 2934505, 0 - 2880444, 0 - 2824431,
    0 - 2766544, 0 - 2706865, 0 - 2645475, 0 - 2582459, 0 - 2517901, 0 - 2451890,
    0 - 2384512, 0 - 2315857, 0 - 2246015, 0 - 2175077, 0 - 2103136, 0 - 2030284,
    0 - 1956615, 0 - 1882222, 0 - 1807200, 0 - 1731643, 0 - 1655646, 0 - 1579304,
    0 - 1502711, 0 - 1425961, 0 - 1349150, 0 - 1272370, 0 - 1195716, 0 - 1119279,
    0 - 1043151, 0 - 967424, 0 - 892188, 0 - 817531, 0 - 743542, 0 - 670307,
    0 - 597911, 0 - 526439, 0 - 455971, 0 - 386589, 0 - 318371, 0 - 251394,
    0 - 185734, 0 - 121462, 0 - 58650, 2634, 62324, 120355,
    176666, 231198, 283896, 334704, 383572, 430452,
    475298, 518068, 558721, 597221, 633535, 667631,
    699481, 729061, 756350, 781329, 803983, 824300,
    842271, 857889, 871154, 882065, 890626, 896844,
    900730, 902296, 901559, 898539, 893258, 885742,
    876019, 864121, 850082, 833940, 815735, 795509,
    773309, 749182, 723180, 695355, 665764, 634464,
    601516, 566983, 530929, 493422, 454530, 414324,
    372876, 330260, 286553, 241831, 196173, 149659,
    102371, 54390, 5800, 0 - 43316, 0 - 92872, 0 - 142782,
    0 - 192961, 0 - 243322, 0 - 293778, 0 - 344242, 0 - 394627, 0 - 444845,
    0 - 494810, 0 - 544434, 0 - 593631, 0 - 642315, 0 - 690399, 0 - 737800,
    0 - 784433, 0 - 830215, 0 - 875063, 0 - 918896, 0 - 961635, 0 - 1003200,
    0 - 1043514, 0 - 1082501, 0 - 1120087, 0 - 1156200, 0 - 1190769, 0 - 1223725,
    0 - 1255001, 0 - 1284532, 0 - 1312255, 0 - 1338111, 0 - 1362041, 0 - 1383988,
    0 - 1403901, 0 - 1421727, 0 - 1437420, 0 - 1450932, 0 - 1462222, 0 - 1471249,
    0 - 1477977, 0 - 1482370, 0 - 1484397, 0 - 1484031, 0 - 1481245, 0 - 1476017,
    0 - 1468329, 0 - 1458164, 0 - 1445508, 0 - 1430353, 0 - 1412691, 0 - 1392520,
    0 - 1369838, 0 - 1344650, 0 - 1316961, 0 - 1286781, 0 - 1254123, 0 - 1219002,
    0 - 1181438, 0 - 1141454, 0 - 1099074, 0 - 1054327, 0 - 1007245, 0 - 957863,
    0 - 906219, 0 - 852354, 0 - 796312, 0 - 738139, 0 - 677885, 0 - 615603,
    0 - 551348, 0 - 485177, 0 - 417152, 0 - 347336, 0 - 275795, 0 - 202596,
    0 - 127810, 0 - 51509, 26230, 105332, 185717, 267304,
    350010, 433751, 518440, 603990, 690310, 777312,
    864902, 952988, 1041476, 1130270, 1219275, 1308394,
    1397531, 1486587, 1575465, 1664066, 1752293, 1840046,
    1927227, 2013739, 2099483, 2184362, 2268280, 2351140,
    2432846, 2513305, 2592423, 2670106, 2746265, 2820810,
    2893651, 2964702, 3033878, 3101095, 3166271, 3229327,
    3290184, 3348768, 3405005, 3458824, 3510155, 3558934,
    3605095, 3648579, 3689326, 3727280, 3762390, 3794606,
    3823880, 3850168, 3873430, 3893628, 3910727, 3924697,
    3935509, 3943139, 3947564, 3948768, 3946735, 3941454,
    3932918, 3921121, 3906064, 3887748, 3866180, 3841368,
    3813327, 3782071, 3747621, 3710000, 3669235, 3625355,
    3578393, 3528386, 3475373, 3419398, 3360507, 3298748,
    3234175, 3166842, 3096807, 3024132, 2948881, 2871119,
    2790918, 2708348, 2623485, 2536404, 2447186, 2355912,
    2262665, 2167533, 2070601, 1971961, 1871704, 1769923,
    1666712, 1562169, 1456391, 1349477, 1241527, 1132643,
    1022926, 912481, 801409, 689817, 577808, 465488,
    352963, 240338, 127718, 15210, 0 - 97081, 0 - 209051,
    0 - 320595, 0 - 431608, 0 - 541988, 0 - 651632, 0 - 760437, 0 - 868305>>

calculateEoT(dayOfYear) == EOT_TICKS[dayOfYear]

\* new Date(date.getTime() + ticks / TICKS_PER_MS): a Date keeps whole
\* milliseconds, and the constructor drops the fraction of the time value
\* (towards zero, so upwards for an instant before 1970).
NewDateAfter(date, ticks) ==
  LET whole == AddMs(date, (ticks - (ticks % TICKS_PER_MS)) \div TICKS_PER_MS)
  IN  IF whole.day < 0 /\ ticks % TICKS_PER_MS # 0 THEN AddMs(whole, 1) ELSE whole

\* Variant of calculateTrueSolarTime that leaves the equation of time out of
\* the total correction.
calculateTrueSolarTimeNoEoT(standardTime, longitude) ==
  LET longitudeDiff == (longitude - 120000) * TICKS_PER_MILLIDEGREE
  IN  [originalTime |-> standardTime,
       trueSolarTime |-> NewDateAfter(standardTime, longitudeDiff),
       longitudeDiff |-> longitudeDiff,
       eotCorrection |-> calculateEoT(getDayOfYear(standardTime))]

calculateTrueSolarTime(standardTime, longitude) ==
  LET longitudeDiff == (longitude - 120000) * TICKS_PER_MILLIDEGREE
      dayOfYear == getDayOfYear(standardTime)
      eotCorrection == calculateEoT(dayOfYear)
      totalCorrection == longitudeDiff + eotCorrection
  IN  [originalTime |-> standardTime,
       trueSolarTime |-> NewDateAfter(standardTime, totalCorrection),
       longitudeDiff |-> longitudeDiff,
       eotCorrection |-> eotCorrection]

(***************************************************************************)
(* solarTerms: the schedule handed to the pillar functions.  The instants  *)
(* come from a numerical solver (VSOP87, nutation, delta T) that is not    *)
(* modelled; a term's instant is the solver's start estimate plus a skew   *)
(* that the session draws.                                                 *)
(***************************************************************************)
SOLAR_TERM_NAMES ==
  <<"xiaohan", "dahan", "lichun", "yushui", "jingzhe", "chunfen",
    "qingming", "guyu", "lixia", "xiaoman", "mangzhong", "xiazhi",
    "xiaoshu", "dashu", "liqiu", "chushu", "bailu", "qiufen",
    "hanlu", "shuangjiang", "lidong", "xiaoxue", "daxue", "dongzhi">>

SOLAR_TERM_LONGITUDES ==
  <<285, 300, 315, 330, 345, 0,
    15, 30, 45, 60, 75, 90,
    105, 120, 135, 150, 165, 180,
    195, 210, 225, 240, 255, 270>>

\* baseJD + 5 + termIndex * (365.25 / 24) days after January 1st, 00:00:
\* 365.25 / 24 days are 1461 / 96 days, and 1 / 96 day is 900000 ms.
estimateSolarTerm(year, termIndex) ==
  [day |-> DaysFromCivil(year, 1, 1) + 5 + (termIndex * 1461) \div 96,
   ms |-> ((termIndex * 1461) % 96) * 900000]

\* Variant of getSolarTermMoment that accepts the index 24.
getSolarTermMomentTo24(year, termIndex, skew) ==
  IF termIndex < 0 \/ termIndex > 24
  THEN Thrown("invalid term index")
  ELSE Returned(AddMs(estimateSolarTerm(year, termIndex), skew))

\* skew: how far the solver's solution for the term lies from the estimate.
getSolarTermMoment(year, termIndex, skew) ==
  IF termIndex < 0 \/ termIndex > 23
  THEN Thrown("invalid term index")
  ELSE Returned(AddMs(estimateSolarTerm(year, termIndex), skew))

\* Variant of getAllSolarTerms whose loop stops one term early.
getAllSolarTermsShort(year, skew) ==
  SortByMoment([i \in 1..23 |->
                  [name |-> SOLAR_TERM_NAMES[i],
                   index |-> i - 1,
                   moment |-> getSolarTermMoment(year, i - 1, skew[i - 1]).value,
                   longitude |-> SOLAR_TERM_LONGITUDES[i]]])

\* skew: the skew of every term index.
getAllSolarTerms(year, skew) ==
  SortByMoment([i \in 1..24 |->
                  [name |-> SOLAR_TERM_NAMES[i],
                   index |-> i - 1,
                   moment |-> getSolarTermMoment(year, i - 1, skew[i - 1]).value,
                   longitude |-> SOLAR_TERM_LONGITUDES[i]]])

\* deltaT, in microseconds, for a whole year.  The polynomial pieces are
\* numbered 1..9 in the order of the code's branches; a quotient is rounded
\* down to a whole microsecond.
deltaTPiece(piece, year) ==
  LET century == year - 1820
      parabola == 3200 * century * century - 20000000
  IN  CASE piece = 1 -> parabola
        [] piece = 2 ->
             LET t1 == year - 1900
             IN  3210000 + 554700 * t1 - 74800 * t1 * t1
        [] piece = 3 ->
             LET t1 == year - 1920
             IN  24020000 + 1306600 * t1 - 59800 * t1 * t1
        [] piece = 4 ->
             LET t1 == year - 1950
             IN  29070000 + 407000 * t1 - ((t1 * t1 * 1000000) \div 233)
                 + ((t1 * t1 * t1 * 1000000) \div 2547)
        [] piece = 5 ->
             LET t1 == year - 1975
             IN  45450000 + 1067000 * t1 - ((t1 * t1 * 1000000) \div 260)
                 - ((t1 * t1 * t1 * 500000) \div 359)
        [] piece = 6 ->
             LET t1 == year - 2000
                 t3 == t1 * t1 * t1
                 t4 == t3 * t1
                 t5 == t4 * t1
             IN  63860000 + 334500 * t1 - 60374 * t1 * t1
                 + ((17275 * t3) \div 10)
                 + 651 * t4 + ((814 * t4) \div 1000)
                 + 23 * t5 + ((735 * t5) \div 1000) + ((99 * t5) \div 100000)
        [] piece = 7 ->
             LET t == year - 2000
             IN  62920000 + 322170 * t + 5589 * t * t
        [] piece = 8 -> parabola - 562800 * (2150 - year)
        [] OTHER -> parabola

\* The branch of deltaT that a year takes.
deltaTPieceOf(year) ==
  IF year < 1900 THEN 1
  ELSE IF year < 1920 THEN 2
  ELSE IF year < 1941 THEN 3
  ELSE IF year < 1961 THEN 4
  ELSE IF year < 1986 THEN 5
  ELSE IF year < 2005 THEN 6
  ELSE IF year < 2050 THEN 7
  ELSE IF year < 2150 THEN 8
  ELSE 9

deltaT(year) == deltaTPiece(deltaTPieceOf(year), year)

JIE_INDICES == <<0, 2, 4, 6, 8, 10, 12, 14, 16, 18, 20, 22>>

isJie(termIndex) == \E k \in DOMAIN JIE_INDICES : JIE_INDICES[k] = termIndex

\* Variant of ScanJie that takes a jie as prev only when it is before t.
RECURSIVE ScanJieStrict(_, _, _, _)
ScanJieStrict(allJie, i, t, prev) ==
  IF i > Len(allJie) THEN [prev |-> prev, next |-> <<>>]
  ELSE IF Before(allJie[i].moment, t)
       THEN ScanJieStrict(allJie, i + 1, t, <<allJie[i]>>)
       ELSE [prev |-> prev, next |-> <<allJie[i]>>]

\* Variant of ScanJie that does not stop at the first later jie: next ends
\* up as the last term of the list.
RECURSIVE ScanJieNoBreak(_, _, _, _)
ScanJieNoBreak(allJie, i, t, prev) ==
  IF i > Len(allJie) THEN [prev |-> prev, next |-> <<>>]
  ELSE IF NotAfter(allJie[i].moment, t)
       THEN ScanJieNoBreak(allJie, i + 1, t, <<allJie[i]>>)
       ELSE [prev |-> prev, next |-> <<allJie[Len(allJie)]>>]

\* The loop over allJie from position i: prev is the last term passed whose
\* moment is <= t, next the first whose moment is not; <<>> is null.
RECURSIVE ScanJie(_, _, _, _)
ScanJie(allJie, i, t, prev) ==
  IF i > Len(allJie) THEN [prev |-> prev, next |-> <<>>]
  ELSE IF NotAfter(allJie[i].moment, t)
       THEN ScanJie(allJie, i + 1, t, <<allJie[i]>>)
       ELSE [prev |-> prev, next |-> <<allJie[i]>>]

findPrevNextJieQi(date, offset, skew) ==
  LET year == getFullYear(date, offset)
      jieOf(y) == SelectSeq(getAllSolarTerms(y, skew),
                            LAMBDA term : isJie(term.index))
      allJie == SortByMoment(jieOf(year - 1) \o jieOf(year) \o jieOf(year + 1))
      found == ScanJie(allJie, 1, date, <<>>)
  IN  IF found.prev = <<>> \/ found.next = <<>>
      THEN Thrown("no jie before or after the date")
      ELSE Returned([prev |-> found.prev[1], next |-> found.next[1]])

(***************************************************************************)
(* Sessions: the inputs a caller may hand to the library and the calls it  *)
(* makes.  Each specification below is one kind of session.                *)
(***************************************************************************)
\* How far the inputs reach beyond the supported range, per field.
RangePad == 1
\* How many steps (of 1 ms and of 1 s) an instant lies off a boundary.
OffsetSteps == 1
\* How many days around the day-pillar epoch and around 2024-01-01.
DaySpan == 70

Input(v) == [status |-> "input", value |-> v]

NoLunar ==
  /\ civil = None /\ lunar = None /\ civilBack = None /\ lunarBack = None
  /\ lunarNext = None /\ civilNext = None
NoDST ==
  /\ dstDate = None /\ userConfirmedDST = FALSE
  /\ dstActive = None /\ dstCorrected = None
NoPillars ==
  /\ hostOffset = 0 /\ trueSolarTime = None /\ solarTerms = <<>>
  /\ yearPillar = None /\ yearStem = None /\ monthPillar = None
  /\ dayPillar = [b \in BOOLEAN |-> None]
NoCycle ==
  /\ effectiveYear = None /\ yearPillarLater = None
  /\ stemOffset = None /\ monthStem = None
  /\ dayPillarNext = None /\ dayPillarCycle = None
NoSolarTime ==
  /\ birthTime = None /\ birthLongitude = None /\ solarTimeResult = None
NoTerms ==
  /\ termYear = None /\ termAsked = None /\ termSkew = None
  /\ termMoment = None /\ allTerms = None /\ jieQiDate = None
  /\ prevNext = None
NoTables ==
  /\ tableYear = None /\ lunarYearDays = None
  /\ festivalDate = None /\ festivalDateNext = None
  /\ deltaYear = None /\ deltaAt = None /\ deltaBefore = None

--------------------------------------------------------------------------
\* Lunar calendar sessions

FirstSupportedDay == DaysFromCivil(1900, 1, 1)
LastSupportedDay == DaysFromCivil(2100, 12, 31)

CivilInputs ==
  {[day |-> d, ms |-> m] :
     d \in (FirstSupportedDay - RangePad)..(LastSupportedDay + RangePad),
     m \in {0, MS_PER_DAY - 1}}

LunarInputs ==
  [year : (1900 - RangePad)..(2100 + RangePad),
   month : (1 - RangePad)..(12 + RangePad),
   day : (1 - RangePad)..(30 + RangePad),
   isLeapMonth : BOOLEAN]

\* The first days of the months that may follow the month of lunarDate.
FollowingFirstDays(lunarDate) ==
  {[year |-> lunarDate.year, month |-> m, day |-> 1, isLeapMonth |-> leap] :
     m \in {lunarDate.month, lunarDate.month + 1}, leap \in BOOLEAN}

InitSolar ==
  /\ pc = "solar"
  /\ civil \in {Input(d) : d \in CivilInputs}
  /\ lunar = None /\ civilBack = None /\ lunarBack = None
  /\ lunarNext = None /\ civilNext = None
  /\ NoDST /\ NoPillars
  /\ NoCycle /\ NoSolarTime /\ NoTerms /\ NoTables

InitLunar ==
  /\ pc = "lunar"
  /\ lunar \in {Input(l) : l \in LunarInputs}
  /\ civil = None /\ civilBack = None /\ lunarBack = None
  /\ lunarNext = None /\ civilNext = None
  /\ NoDST /\ NoPillars
  /\ NoCycle /\ NoSolarTime /\ NoTerms /\ NoTables

\* solarToLunar(date)
SolarToLunar ==
  /\ pc = "solar"
  /\ lunar' = solarToLunar(civil.value)
  /\ pc' = "solar-lunar"
  /\ UNCHANGED <<civil, civilBack, lunarBack, lunarNext, civilNext>>
  /\ UNCHANGED <<dstVars, pillarVars>>
  /\ UNCHANGED <<cycleVars, solarTimeVars, termVars, tableVars>>

\* lunarToSolar(solarToLunar(date))
LunarToSolarBack ==
  /\ pc = "solar-lunar"
  /\ lunar.status # "thrown"
  /\ civilBack' = lunarToSolar(lunar.value)
  /\ pc' = "solar-lunar-solar"
  /\ UNCHANGED <<civil, lunar, lunarBack, lunarNext, civilNext>>
  /\ UNCHANGED <<dstVars, pillarVars>>
  /\ UNCHANGED <<cycleVars, solarTimeVars, termVars, tableVars>>

\* lunarToSolar(lunarDate)
LunarToSolar ==
  /\ pc = "lunar"
  /\ civil' = lunarToSolar(lunar.value)
  /\ pc' = "lunar-solar"
  /\ UNCHANGED <<lunar, civilBack, lunarBack, lunarNext, civilNext>>
  /\ UNCHANGED <<dstVars, pillarVars>>
  /\ UNCHANGED <<cycleVars, solarTimeVars, termVars, tableVars>>

\* solarToLunar(lunarToSolar(lunarDate))
SolarToLunarBack ==
  /\ pc = "lunar-solar"
  /\ civil.status = "returned"
  /\ lunarBack' = solarToLunar(civil.value)
  /\ pc' = "lunar-solar-lunar"
  /\ UNCHANGED <<civil, lunar, civilBack, lunarNext, civilNext>>
  /\ UNCHANGED <<dstVars, pillarVars>>
  /\ UNCHANGED <<cycleVars, solarTimeVars, termVars, tableVars>>

\* A second lunarToSolar call, on the first day of a following month, after
\* a call on a day that can end a month.
LunarToSolarNext ==
  /\ pc = "lunar-solar"
  /\ civil.status = "returned"
  /\ lunar.value.day >= 29
  /\ \E n \in FollowingFirstDays(lunar.value) :
       /\ lunarNext' = n
       /\ civilNext' = lunarToSolar(n)
  /\ pc' = "lunar-solar-next"
  /\ UNCHANGED <<civil, lunar, civilBack, lunarBack>>
  /\ UNCHANGED <<dstVars, pillarVars>>
  /\ UNCHANGED <<cycleVars, solarTimeVars, termVars, tableVars>>

NextSolar == SolarToLunar \/ LunarToSolarBack
NextLunar == LunarToSolar \/ SolarToLunarBack \/ LunarToSolarNext

SpecSolar == InitSolar /\ [][NextSolar]_vars
SpecLunar == InitLunar /\ [][NextLunar]_vars

--------------------------------------------------------------------------
\* Daylight-saving sessions

DSTTimes ==
  {0, 2 * MS_PER_HOUR - 1, 2 * MS_PER_HOUR, 2 * MS_PER_HOUR + 1,
   3 * MS_PER_HOUR - 1, 3 * MS_PER_HOUR, MS_PER_DAY - 1}

DSTInputs ==
  {[day |-> d, ms |-> m] :
     d \in DaysFromCivil(1986 - RangePad, 1, 1)..DaysFromCivil(1991 + RangePad, 12, 31),
     m \in DSTTimes}

InitDST ==
  /\ pc = "dst"
  /\ dstDate \in DSTInputs
  /\ userConfirmedDST \in BOOLEAN
  /\ dstActive = None /\ dstCorrected = None
  /\ NoLunar /\ NoPillars
  /\ NoCycle /\ NoSolarTime /\ NoTerms /\ NoTables

\* isDSTActive(date)
IsDSTActive ==
  /\ pc = "dst"
  /\ dstActive = None
  /\ dstActive' = Returned(isDSTActive(dstDate))
  /\ UNCHANGED <<pc, dstDate, userConfirmedDST, dstCorrected>>
  /\ UNCHANGED <<lunarVars, pillarVars>>
  /\ UNCHANGED <<cycleVars, solarTimeVars, termVars, tableVars>>

\* applyDSTCorrection(dstDate, userConfirmedDST)
ApplyDSTCorrection ==
  /\ pc = "dst"
  /\ dstCorrected = None
  /\ dstCorrected' = Returned(applyDSTCorrection(dstDate, userConfirmedDST))
  /\ UNCHANGED <<pc, dstDate, userConfirmedDST, dstActive>>
  /\ UNCHANGED <<lunarVars, pillarVars>>
  /\ UNCHANGED <<cycleVars, solarTimeVars, termVars, tableVars>>

NextDST == IsDSTActive \/ ApplyDSTCorrection
SpecDST == InitDST /\ [][NextDST]_vars

--------------------------------------------------------------------------
\* Year- and month-pillar sessions

PillarYears == {1984, 2000, 2024}
TermSkews == {0 - 40000000, 21600001}
HostOffsets == {0 - 5 * MS_PER_HOUR, 0, 8 * MS_PER_HOUR}

NearOffsets == {k * unit : k \in (0 - OffsetSteps)..OffsetSteps, unit \in {1, 1000}}
YearEdgeOffsets == {0 - 3 * MS_PER_HOUR, 0 - 1, 0, 3 * MS_PER_HOUR}

\* The lists a caller builds from getAllSolarTerms.
TermLists(year, skew) ==
  LET prev == getAllSolarTerms(year - 1, [i \in 0..23 |-> skew])
      this == getAllSolarTerms(year, [i \in 0..23 |-> skew])
      next == getAllSolarTerms(year + 1, [i \in 0..23 |-> skew])
  IN  {prev \o this \o next, this, prev, next \o this \o prev, <<>>}

\* The terms of the year, the last two of the year before and the first
\* three of the year after.
NearTerms(year) ==
  {<<year, i>> : i \in 0..23}
  \cup {<<year - 1, i>> : i \in {22, 23}}
  \cup {<<year + 1, i>> : i \in {0, 1, 2}}

PillarInstants(year, skew) ==
  {AddMs(getSolarTermMoment(yi[1], yi[2], skew).value, off) :
     yi \in NearTerms(year), off \in NearOffsets}
  \cup {AddMs(DateUTC(y, 1, 1), off) :
          y \in {year, year + 1}, off \in YearEdgeOffsets}

InitPillars ==
  /\ pc = "pillars"
  /\ hostOffset \in HostOffsets
  /\ \E year \in PillarYears, skew \in TermSkews :
       /\ solarTerms \in TermLists(year, skew)
       /\ trueSolarTime \in PillarInstants(year, skew)
  /\ yearPillar = None /\ yearStem = None /\ monthPillar = None
  /\ dayPillar = [b \in BOOLEAN |-> None]
  /\ NoLunar /\ NoDST
  /\ NoCycle /\ NoSolarTime /\ NoTerms /\ NoTables

\* calculateYearPillar(trueSolarTime, solarTerms)
CalculateYearPillar ==
  /\ pc = "pillars"
  /\ yearPillar' = calculateYearPillar(trueSolarTime, solarTerms, hostOffset)
  /\ pc' = "year"
  /\ UNCHANGED <<hostOffset, trueSolarTime, solarTerms, yearStem, monthPillar,
                 dayPillar>>
  /\ UNCHANGED <<lunarVars, dstVars>>
  /\ UNCHANGED <<cycleVars, solarTimeVars, termVars, tableVars>>

\* calculateMonthPillar(trueSolarTime, yearStem, solarTerms)
CalculateMonthPillar ==
  /\ pc = "year"
  /\ \E stem \in {HEAVENLY_STEMS[i] : i \in DOMAIN HEAVENLY_STEMS} :
       /\ yearStem' = stem
       /\ monthPillar' = calculateMonthPillar(trueSolarTime, stem, solarTerms)
  \* the caller's list after the call: extractJieTerms is the only callee
  \* that is handed the list
  /\ solarTerms' = extractJieTermsCall(solarTerms).solarTerms
  /\ pc' = "month"
  /\ UNCHANGED <<hostOffset, trueSolarTime, yearPillar, dayPillar>>
  /\ UNCHANGED <<lunarVars, dstVars>>
  /\ UNCHANGED <<cycleVars, solarTimeVars, termVars, tableVars>>

NextPillars == CalculateYearPillar \/ CalculateMonthPillar
SpecPillars == InitPillars /\ [][NextPillars]_vars

--------------------------------------------------------------------------
\* Day-pillar sessions

DayTimes ==
  {0, 1, 23 * MS_PER_HOUR - 1, 23 * MS_PER_HOUR, 23 * MS_PER_HOUR + 1,
   MS_PER_DAY - 1}

DayInstants ==
  {[day |-> d, ms |-> m] :
     d \in ((BASE_DATE.day - DaySpan)..(BASE_DATE.day + DaySpan))
           \cup ((DaysFromCivil(2024, 1, 1) - DaySpan)
                 ..(DaysFromCivil(2024, 1, 1) + DaySpan)),
     m \in DayTimes}

InitDay ==
  /\ pc = "day"
  /\ trueSolarTime \in DayInstants
  /\ hostOffset = 0 /\ solarTerms = <<>>
  /\ yearPillar = None /\ yearStem = None /\ monthPillar = None
  /\ dayPillar = [b \in BOOLEAN |-> None]
  /\ NoLunar /\ NoDST
  /\ NoCycle /\ NoSolarTime /\ NoTerms /\ NoTables

\* calculateDayPillar(trueSolarTime, earlyRatSplit)
CalculateDayPillar(earlyRatSplit) ==
  /\ pc = "day"
  /\ dayPillar[earlyRatSplit] = None
  /\ dayPillar' = [dayPillar EXCEPT ![earlyRatSplit] =
                     Returned(calculateDayPillar(trueSolarTime, earlyRatSplit))]
  /\ UNCHANGED <<pc, hostOffset, trueSolarTime, solarTerms, yearPillar, yearStem,
                 monthPillar>>
  /\ UNCHANGED <<lunarVars, dstVars>>
  /\ UNCHANGED <<cycleVars, solarTimeVars, termVars, tableVars>>

\* calculateDayPillar(trueSolarTime + 1 day, false)
CalculateDayPillarNext ==
  /\ pc = "day"
  /\ dayPillarNext = None
  /\ dayPillarNext' = Returned(calculateDayPillar(AddDays(trueSolarTime, 1), FALSE))
  /\ UNCHANGED <<pc, pillarVars, effectiveYear, yearPillarLater, stemOffset,
                 monthStem, dayPillarCycle>>
  /\ UNCHANGED <<lunarVars, dstVars, solarTimeVars, termVars, tableVars>>

\* calculateDayPillar(trueSolarTime + 60 days, false)
CalculateDayPillarCycle ==
  /\ pc = "day"
  /\ dayPillarCycle = None
  /\ dayPillarCycle' = Returned(calculateDayPillar(AddDays(trueSolarTime, 60), FALSE))
  /\ UNCHANGED <<pc, pillarVars, effectiveYear, yearPillarLater, stemOffset,
                 monthStem, dayPillarNext>>
  /\ UNCHANGED <<lunarVars, dstVars, solarTimeVars, termVars, tableVars>>

NextDay ==
  \/ \E earlyRatSplit \in BOOLEAN : CalculateDayPillar(earlyRatSplit)
  \/ CalculateDayPillarNext
  \/ CalculateDayPillarCycle
SpecDay == InitDay /\ [][NextDay]_vars

--------------------------------------------------------------------------
\* Sessions on getYearPillar and calculateMonthStem

\* How many years around the year 4 and around 1984.
YearSpan == 65

YearInputs ==
  ((4 - YearSpan)..(4 + YearSpan)) \cup ((1984 - YearSpan)..(1984 + YearSpan))

InitYear ==
  /\ pc = "getYearPillar"
  /\ effectiveYear \in YearInputs
  /\ yearPillarLater = None
  /\ stemOffset = None /\ monthStem = None
  /\ dayPillarNext = None /\ dayPillarCycle = None
  /\ NoLunar /\ NoDST /\ NoPillars /\ NoSolarTime /\ NoTerms /\ NoTables

\* getYearPillar(effectiveYear)
GetYearPillar ==
  /\ pc = "getYearPillar"
  /\ yearPillar = None
  /\ yearPillar' = Returned(getYearPillar(effectiveYear))
  /\ UNCHANGED <<pc, hostOffset, trueSolarTime, solarTerms, yearStem,
                 monthPillar, dayPillar>>
  /\ UNCHANGED <<lunarVars, dstVars, cycleVars, solarTimeVars, termVars, tableVars>>

\* getYearPillar(effectiveYear + 60)
GetYearPillarLater ==
  /\ pc = "getYearPillar"
  /\ yearPillarLater = None
  /\ yearPillarLater' = Returned(getYearPillar(effectiveYear + 60))
  /\ UNCHANGED <<pc, pillarVars, effectiveYear, stemOffset, monthStem,
                 dayPillarNext, dayPillarCycle>>
  /\ UNCHANGED <<lunarVars, dstVars, solarTimeVars, termVars, tableVars>>

NextYear == GetYearPillar \/ GetYearPillarLater
SpecYear == InitYear /\ [][NextYear]_vars

InitStem ==
  /\ pc = "calculateMonthStem"
  /\ yearStem \in {HEAVENLY_STEMS[i] : i \in DOMAIN HEAVENLY_STEMS}
  /\ stemOffset \in 0..11
  /\ monthStem = None
  /\ hostOffset = 0 /\ trueSolarTime = None /\ solarTerms = <<>>
  /\ yearPillar = None /\ monthPillar = None
  /\ dayPillar = [b \in BOOLEAN |-> None]
  /\ effectiveYear = None /\ yearPillarLater = None
  /\ dayPillarNext = None /\ dayPillarCycle = None
  /\ NoLunar /\ NoDST /\ NoSolarTime /\ NoTerms /\ NoTables

\* calculateMonthStem(yearStem, stemOffset)
CalculateMonthStem ==
  /\ pc = "calculateMonthStem"
  /\ monthStem = None
  /\ monthStem' = Returned(calculateMonthStem(yearStem, stemOffset))
  /\ UNCHANGED <<pc, pillarVars, effectiveYear, yearPillarLater, stemOffset,
                 dayPillarNext, dayPillarCycle>>
  /\ UNCHANGED <<lunarVars, dstVars, solarTimeVars, termVars, tableVars>>

NextStem == CalculateMonthStem
SpecStem == InitStem /\ [][NextStem]_vars

\* All sessions that return a pillar.
InitCycle == InitPillars \/ InitDay \/ InitYear \/ InitStem
NextCycle == NextPillars \/ NextDay \/ NextYear \/ NextStem
SpecCycle == InitCycle /\ [][NextCycle]_vars

--------------------------------------------------------------------------
\* True-solar-time sessions

\* Every day of a leap year before 1970 and of one after it.
SolarTimeDays ==
  (DaysFromCivil(1968, 1, 1)..DaysFromCivil(1968, 12, 31))
  \cup (DaysFromCivil(2024, 1, 1)..DaysFromCivil(2024, 12, 31))

SolarTimeInputs ==
  {[day |-> d, ms |-> m] : d \in SolarTimeDays, m \in {0, 12 * MS_PER_HOUR}}

\* Thousandths of a degree: -180, 0, 87.6, 116.4, 120, 121.5 and 180 degrees.
LongitudeInputs == {0 - 180000, 0, 87600, 116400, 120000, 121500, 180000}

InitSolarTime ==
  /\ pc = "calculateTrueSolarTime"
  /\ birthTime \in SolarTimeInputs
  /\ birthLongitude \in LongitudeInputs
  /\ solarTimeResult = None
  /\ NoLunar /\ NoDST /\ NoPillars /\ NoCycle /\ NoTerms /\ NoTables

\* calculateTrueSolarTime(birthTime, birthLongitude)
CalculateTrueSolarTime ==
  /\ pc = "calculateTrueSolarTime"
  /\ solarTimeResult = None
  /\ solarTimeResult' = Returned(calculateTrueSolarTime(birthTime, birthLongitude))
  /\ UNCHANGED <<pc, birthTime, birthLongitude>>
  /\ UNCHANGED <<lunarVars, dstVars, pillarVars, cycleVars, termVars, tableVars>>

NextSolarTime == CalculateTrueSolarTime
SpecSolarTime == InitSolarTime /\ [][NextSolarTime]_vars

--------------------------------------------------------------------------
\* Solar-term sessions

\* The solver's solutions for 1899..2102 lie between 72.1 hours before and
\* 75.1 hours after its estimates.
SkewLimit == 76 * MS_PER_HOUR

\* The whole hours between the estimates and the solutions for 2024.
SKEW_HOURS_2024 ==
  <<5, 0 - 7, 0 - 18, 0 - 28, 0 - 35, 0 - 39,
    0 - 41, 0 - 39, 0 - 34, 0 - 26, 0 - 16, 0 - 5,
    7, 20, 31, 40, 47, 52,
    53, 51, 45, 38, 28, 17>>

SkewProfiles ==
  {[i \in 0..23 |-> 0],
   [i \in 0..23 |-> SKEW_HOURS_2024[i + 1] * MS_PER_HOUR],
   [i \in 0..23 |-> IF i % 2 = 0 THEN 0 - SkewLimit ELSE SkewLimit],
   [i \in 0..23 |-> IF i % 2 = 0 THEN SkewLimit ELSE 0 - SkewLimit]}

TermYears == (1900 - RangePad)..(2100 + RangePad)
JieQiYears == {1900, 2024, 2100}

JieQiInstants(year, skew) ==
  {AddMs(getSolarTermMoment(yi[1], yi[2], skew[yi[2]]).value, off) :
     yi \in NearTerms(year), off \in NearOffsets}
  \cup {AddMs(DateUTC(y, 1, 1), off) :
          y \in {year, year + 1}, off \in YearEdgeOffsets}

InitTermMoment ==
  /\ pc = "getSolarTermMoment"
  /\ termYear \in TermYears
  /\ termAsked \in (0 - RangePad)..(23 + RangePad)
  /\ termSkew \in SkewProfiles
  /\ termMoment = None /\ allTerms = None /\ jieQiDate = None /\ prevNext = None
  /\ NoLunar /\ NoDST /\ NoPillars /\ NoCycle /\ NoSolarTime /\ NoTables

InitAllTerms ==
  /\ pc = "getAllSolarTerms"
  /\ termYear \in TermYears
  /\ termSkew \in SkewProfiles
  /\ termAsked = None
  /\ termMoment = None /\ allTerms = None /\ jieQiDate = None /\ prevNext = None
  /\ NoLunar /\ NoDST /\ NoPillars /\ NoCycle /\ NoSolarTime /\ NoTables

InitJieQi ==
  /\ pc = "findPrevNextJieQi"
  /\ hostOffset \in HostOffsets
  /\ termSkew \in SkewProfiles
  /\ \E year \in JieQiYears : jieQiDate \in JieQiInstants(year, termSkew)
  /\ termYear = None /\ termAsked = None
  /\ termMoment = None /\ allTerms = None /\ prevNext = None
  /\ trueSolarTime = None /\ solarTerms = <<>>
  /\ yearPillar = None /\ yearStem = None /\ monthPillar = None
  /\ dayPillar = [b \in BOOLEAN |-> None]
  /\ NoLunar /\ NoDST /\ NoCycle /\ NoSolarTime /\ NoTables

\* getSolarTermMoment(termYear, termAsked)
GetSolarTermMoment ==
  /\ pc = "getSolarTermMoment"
  /\ termMoment = None
  /\ termMoment' = getSolarTermMoment(termYear, termAsked,
                                      IF termAsked \in DOMAIN termSkew
                                      THEN termSkew[termAsked] ELSE 0)
  /\ UNCHANGED <<pc, termYear, termAsked, termSkew, allTerms, jieQiDate, prevNext>>
  /\ UNCHANGED <<lunarVars, dstVars, pillarVars, cycleVars, solarTimeVars, tableVars>>

\* getAllSolarTerms(termYear)
GetAllSolarTerms ==
  /\ pc = "getAllSolarTerms"
  /\ allTerms = None
  /\ allTerms' = Returned(getAllSolarTerms(termYear, termSkew))
  /\ UNCHANGED <<pc, termYear, termAsked, termSkew, termMoment, jieQiDate, prevNext>>
  /\ UNCHANGED <<lunarVars, dstVars, pillarVars, cycleVars, solarTimeVars, tableVars>>

\* findPrevNextJieQi(jieQiDate)
FindPrevNextJieQi ==
  /\ pc = "findPrevNextJieQi"
  /\ prevNext = None
  /\ prevNext' = findPrevNextJieQi(jieQiDate, hostOffset, termSkew)
  /\ UNCHANGED <<pc, termYear, termAsked, termSkew, termMoment, allTerms, jieQiDate>>
  /\ UNCHANGED <<lunarVars, dstVars, pillarVars, cycleVars, solarTimeVars, tableVars>>

InitTerms == InitTermMoment \/ InitAllTerms \/ InitJieQi
NextTerms == GetSolarTermMoment \/ GetAllSolarTerms \/ FindPrevNextJieQi
SpecTerms == InitTerms /\ [][NextTerms]_vars

--------------------------------------------------------------------------
\* Sessions on the two lunar tables: the length of a lunar year as
\* LUNAR_INFO encodes it, and the new-year dates SPRING_FESTIVAL lists for
\* the year and for the year after it.

TableYears == 1900..(2100 - 1)

InitTables ==
  /\ pc = "tables"
  /\ tableYear \in TableYears
  /\ lunarYearDays = None /\ festivalDate = None /\ festivalDateNext = None
  /\ deltaYear = None /\ deltaAt = None /\ deltaBefore = None
  /\ NoLunar /\ NoDST /\ NoPillars /\ NoCycle /\ NoSolarTime /\ NoTerms

\* getLunarYearDays(tableYear)
GetLunarYearDays ==
  /\ pc = "tables"
  /\ lunarYearDays = None
  /\ lunarYearDays' = Returned(getLunarYearDays(tableYear))
  /\ UNCHANGED <<pc, tableYear, festivalDate, festivalDateNext,
                 deltaYear, deltaAt, deltaBefore>>
  /\ UNCHANGED <<lunarVars, dstVars, pillarVars, cycleVars, solarTimeVars, termVars>>

\* getSpringFestivalDate(tableYear) and getSpringFestivalDate(tableYear + 1)
GetSpringFestivalDate ==
  /\ pc = "tables"
  /\ festivalDate = None
  /\ festivalDate' = Returned(getSpringFestivalDate(tableYear))
  /\ festivalDateNext' = Returned(getSpringFestivalDate(tableYear + 1))
  /\ UNCHANGED <<pc, tableYear, lunarYearDays, deltaYear, deltaAt, deltaBefore>>
  /\ UNCHANGED <<lunarVars, dstVars, pillarVars, cycleVars, solarTimeVars, termVars>>

NextTables == GetLunarYearDays \/ GetSpringFestivalDate
SpecTables == InitTables /\ [][NextTables]_vars

--------------------------------------------------------------------------
\* Sessions on deltaT: its value at a whole year, and the value it
\* approaches as its argument rises to that year, which is the polynomial
\* of the branch in force just below the year.

DeltaYears == (1900 - 10 * RangePad)..(2150 + 10 * RangePad)

InitDeltaT ==
  /\ pc = "deltaT"
  /\ deltaYear \in DeltaYears
  /\ deltaAt = None /\ deltaBefore = None
  /\ tableYear = None /\ lunarYearDays = None
  /\ festivalDate = None /\ festivalDateNext = None
  /\ NoLunar /\ NoDST /\ NoPillars /\ NoCycle /\ NoSolarTime /\ NoTerms

\* deltaT(deltaYear)
CallDeltaT ==
  /\ pc = "deltaT"
  /\ deltaAt = None
  /\ deltaAt' = Returned(deltaT(deltaYear))
  /\ UNCHANGED <<pc, deltaYear, deltaBefore, tableYear, lunarYearDays,
                 festivalDate, festivalDateNext>>
  /\ UNCHANGED <<lunarVars, dstVars, pillarVars, cycleVars, solarTimeVars, termVars>>

\* the limit of deltaT(y) for y rising to deltaYear
ApproachDeltaT ==
  /\ pc = "deltaT"
  /\ deltaBefore = None
  /\ deltaBefore' = Returned(deltaTPiece(deltaTPieceOf(deltaYear - 1), deltaYear))
  /\ UNCHANGED <<pc, deltaYear, deltaAt, tableYear, lunarYearDays,
                 festivalDate, festivalDateNext>>
  /\ UNCHANGED <<lunarVars, dstVars, pillarVars, cycleVars, solarTimeVars, termVars>>

NextDeltaT == CallDeltaT \/ ApproachDeltaT
SpecDeltaT == InitDeltaT /\ [][NextDeltaT]_vars

--------------------------------------------------------------------------
\* Sessions of the calls that are handed a list or a Date of the caller.
InitArguments == InitPillars \/ InitDST \/ InitSolarTime
NextArguments == NextPillars \/ NextDST \/ NextSolarTime
SpecArguments == InitArguments /\ [][NextArguments]_vars

(***************************************************************************)
(* Properties                                                              *)
(***************************************************************************)
RoundTripFirstDay == DaysFromCivil(1900, 1, 31)
InRoundTripRange(d) == d.day \in RoundTripFirstDay..LastSupportedDay
InSupportedRange(d) == d.day \in FirstSupportedDay..LastSupportedDay

\* The length of the month a LunarDate names, as the year's record encodes it.
MonthLength(l) ==
  IF l.isLeapMonth THEN getLeapMonthDays(l.year) ELSE getMonthDays(l.year, l.month)

\* C1: for every civil date d in [1900-01-31, 2100-12-31], solarToLunar(d)
\* returns a LunarDate and lunarToSolar of it returns the calendar date of d.
C1_SolarRoundTrip ==
  /\ (pc = "solar-lunar" /\ InRoundTripRange(civil.value))
       => lunar.status = "returned"
  /\ (pc = "solar-lunar-solar" /\ InRoundTripRange(civil.value))
       => /\ civilBack.status = "returned"
          /\ CivilFromDays(civilBack.value.day) = CivilFromDays(civil.value.day)

\* The conditions under which C7 says lunarToSolar fails.
C7_FailureCondition(l) ==
  \/ l.year < 1900 \/ l.year > 2100
  \/ l.month < 1 \/ l.month > 12
  \/ l.day < 1 \/ l.day > 30
  \/ (l.isLeapMonth /\ LUNAR_INFO[l.year - 1899] % 16 # l.month)
  \/ l.day > MonthLength(l)

\* C7: lunarToSolar throws exactly under the failure conditions, and
\* returns a civil date (a Date at midnight) for every other LunarDate.
C7_LunarToSolarFailsExactly ==
  pc = "lunar-solar" =>
    /\ civil.status \in {"thrown", "returned"}
    /\ civil.status = "thrown" <=> C7_FailureCondition(lunar.value)
    /\ civil.status = "returned" =>
         /\ civil.value.ms = 0
         /\ civil.value.day >= DaysFromCivil(lunar.value.year, 1, 1)

C7_Witness ==
  /\ pc = "lunar-solar"
  /\ lunar.value = [year |-> 2024, month |-> 3, day |-> 1, isLeapMonth |-> TRUE]
  /\ civil.status = "thrown"

\* The data-model invariant of a LunarDate.
ValidLunarDate(l) ==
  /\ l.year \in 1900..2100
  /\ l.month \in 1..12
  /\ l.day \in 1..MonthLength(l)
  /\ MonthLength(l) <= 30
  /\ l.isLeapMonth => getLeapMonthInternal(l.year) = l.month

\* C8: for every civil date in [1900-01-01, 2100-12-31], solarToLunar throws
\* or returns a LunarDate that satisfies the data-model invariant, and
\* lunarToSolar accepts every LunarDate it returns.
C8_SolarToLunarValid ==
  /\ (pc \in {"solar-lunar", "solar-lunar-solar"} /\ InSupportedRange(civil.value))
       => \/ lunar.status = "thrown"
          \/ (lunar.status = "returned" /\ ValidLunarDate(lunar.value))
  /\ (pc = "solar-lunar-solar" /\ InSupportedRange(civil.value))
       => civilBack.status = "returned"

\* C9: for every LunarDate l that lunarToSolar accepts with a civil date in
\* [1900-01-31, 2100-12-31], solarToLunar(lunarToSolar(l)) returns l.
C9_LunarRoundTrip ==
  (pc = "lunar-solar-lunar" /\ InRoundTripRange(civil.value))
    => lunarBack = Returned(lunar.value)

\* The first day of the month that follows the month of l in its lunar
\* year: the leap month after its ordinary month, else the next number.
FirstDayAfter(l) ==
  IF ~l.isLeapMonth /\ getLeapMonthInternal(l.year) = l.month
  THEN [year |-> l.year, month |-> l.month, day |-> 1, isLeapMonth |-> TRUE]
  ELSE [year |-> l.year, month |-> l.month + 1, day |-> 1, isLeapMonth |-> FALSE]

\* C10: within a lunar year, the first day of the following month (the leap
\* month right after the ordinary month of its number) is the civil day
\* after the last day of a month; lunar 2023 leap month 2 day 1 is civil
\* 2023-03-21.
C10_MonthsAreContiguous ==
  pc = "lunar-solar-next" =>
    /\ (/\ lunar.value.day = MonthLength(lunar.value)
        /\ FirstDayAfter(lunar.value).month <= 12
        /\ lunarNext = FirstDayAfter(lunar.value))
         => civilNext = Returned([day |-> civil.value.day + 1, ms |-> 0])
    /\ lunarNext = [year |-> 2023, month |-> 2, day |-> 1, isLeapMonth |-> TRUE]
         => civilNext = Returned(DateUTC(2023, 3, 21))

C10_Witness ==
  /\ pc = "lunar-solar-next"
  /\ lunar.value = [year |-> 2023, month |-> 2, day |-> 29, isLeapMonth |-> FALSE]
  /\ lunarNext = [year |-> 2023, month |-> 2, day |-> 1, isLeapMonth |-> TRUE]
  /\ civilNext = Returned(DateUTC(2023, 3, 21))

\* The instant lies in the window [start, end) of one of the table's entries.
InSomeWindow(t) ==
  \E i \in DOMAIN DST_TABLE :
    /\ NotAfter(DST_TABLE[i].start, t)
    /\ Before(t, DST_TABLE[i].end)

\* a.getTime() - b.getTime() for instants less than 24 days apart
MsBetween(a, b) == (a.day - b.day) * MS_PER_DAY + (a.ms - b.ms)

\* C5: applyDSTCorrection returns an instant exactly 3,600,000 ms earlier
\* iff userConfirmed is true and the instant lies in a DST window; in every
\* other case it returns the input instant.
C5_CorrectionIffConfirmedInWindow ==
  dstCorrected # None =>
    IF userConfirmedDST /\ InSomeWindow(dstDate)
    THEN /\ dstCorrected.value.day \in {dstDate.day - 1, dstDate.day}
         /\ MsBetween(dstDate, dstCorrected.value) = 3600000
    ELSE dstCorrected.value = dstDate

C5_Witness ==
  /\ dstCorrected # None
  /\ userConfirmedDST
  /\ dstDate = DateUTCHour(1986, 5, 4, 2)
  /\ dstCorrected.value = DateUTCHour(1986, 5, 4, 1)

\* C6: isDSTActive is true iff the instant lies in [start, end) of one of
\* the six windows: true at a start, false at an end, false in every year
\* outside 1986-1991.
C6_ActiveIffInSomeWindow ==
  dstActive # None =>
    /\ dstActive.value <=> InSomeWindow(dstDate)
    /\ getUTCFullYear(dstDate) \notin 1986..1991 => ~dstActive.value
    /\ (\E i \in DOMAIN DST_TABLE : dstDate = DST_TABLE[i].start) => dstActive.value
    /\ (\E i \in DOMAIN DST_TABLE : dstDate = DST_TABLE[i].end) => ~dstActive.value

C6_Witness ==
  /\ dstActive = Returned(FALSE)
  /\ dstDate = DateUTCHour(1991, 9, 15, 2)

\* The Start-of-Spring instants of the civil year in the list.
LichunOf(terms, year) ==
  {terms[k].moment : k \in {j \in DOMAIN terms :
                              /\ terms[j].index = 2
                              /\ getUTCFullYear(terms[j].moment) = year}}

BranchOfJie(index) == EARTHLY_BRANCHES[((index \div 2 + 1) % 12) + 1]

\* The positions of the jie of the list that are not after the instant.
JieNotAfter(terms, t) ==
  {k \in DOMAIN terms : terms[k].index % 2 = 0 /\ NotAfter(terms[k].moment, t)}

\* C3: the month branch is that of the latest jie of the list whose instant
\* is <= the event instant; the instant of a jie belongs to the new month,
\* and a qi changes nothing.
C3_BranchOfLatestJie ==
  pc = "month" =>
    LET past == JieNotAfter(solarTerms, trueSolarTime)
    IN  past # {} =>
          /\ monthPillar.status = "returned"
          /\ \A k \in past :
               (\A j \in past : NotAfter(solarTerms[j].moment, solarTerms[k].moment))
                 => monthPillar.value.branch = BranchOfJie(solarTerms[k].index)

C3_Witness ==
  /\ pc = "month"
  /\ \E k \in DOMAIN solarTerms :
       /\ solarTerms[k].index = 4
       /\ solarTerms[k].moment = trueSolarTime
  /\ monthPillar.status = "returned"
  /\ monthPillar.value.branch = "mao"

\* The pillar at position n of the sixty-pillar cycle.
PillarAt(n) ==
  [stem |-> HEAVENLY_STEMS[(n % 10) + 1], branch |-> EARTHLY_BRANCHES[(n % 12) + 1]]

\* C4: the day pillar is that of N whole days since 1900-01-31, plus one
\* iff earlyRatSplit is true and the hour is >= 23; before 23:00 the flag
\* changes nothing.
C4_EarlyRatSplitAt23 ==
  LET n == trueSolarTime.day - DaysFromCivil(1900, 1, 31)
      late == trueSolarTime.ms >= 23 * 3600000
  IN  pc = "day" =>
        /\ \A flag \in BOOLEAN :
             dayPillar[flag] # None =>
               dayPillar[flag].value =
                 PillarAt((n + (IF flag /\ late THEN 1 ELSE 0)) % 60)
        /\ (~late /\ dayPillar[TRUE] # None /\ dayPillar[FALSE] # None)
             => dayPillar[TRUE] = dayPillar[FALSE]

C4_Witness ==
  /\ pc = "day"
  /\ trueSolarTime = [day |-> DaysFromCivil(2024, 1, 1), ms |-> 23 * 3600000]
  /\ dayPillar[TRUE] # None /\ dayPillar[FALSE] # None
  /\ dayPillar[TRUE].value # dayPillar[FALSE].value

--------------------------------------------------------------------------
\* The sixty-pillar cycle

StemIndex(p) == IndexOf(HEAVENLY_STEMS, p.stem)
BranchIndex(p) == IndexOf(EARTHLY_BRANCHES, p.branch)

\* A stem and a branch of the same parity.
Sexagenary(p) ==
  /\ StemIndex(p) \in 0..9 /\ BranchIndex(p) \in 0..11
  /\ StemIndex(p) % 2 = BranchIndex(p) % 2

\* The pillars a session has been handed so far.
ReturnedPillars ==
  {r.value : r \in {r \in {yearPillar, yearPillarLater, monthPillar,
                              dayPillar[TRUE], dayPillar[FALSE],
                              dayPillarNext, dayPillarCycle} :
                       r.status = "returned"}}

\* C11: every pillar returned by getYearPillar, calculateYearPillar,
\* calculateMonthPillar and calculateDayPillar has a stem index and a branch
\* index of the same parity.
C11_PillarsAreSexagenary == \A p \in ReturnedPillars : Sexagenary(p)

C11_Witness ==
  /\ pc = "month"
  /\ yearPillar.status = "returned" /\ monthPillar.status = "returned"
  /\ yearStem = "yi" /\ monthPillar.value = [stem |-> "wu", branch |-> "yin"]

\* C12: the day pillar is one of the sixty pillars of the cycle, also before
\* the epoch; on 1900-01-31 without early-rat split it is the first pillar
\* (jia-zi) and on the day before it is the last (gui-hai).
C12_DayIndexInCycle ==
  pc = "day" =>
    /\ \A p \in ReturnedPillars : \E n \in 0..59 : p = PillarAt(n)
    /\ (dayPillar[FALSE] # None /\ trueSolarTime.day = DaysFromCivil(1900, 1, 31))
         => dayPillar[FALSE].value = [stem |-> "jia", branch |-> "zi"]
    /\ (dayPillar[FALSE] # None /\ trueSolarTime.day = DaysFromCivil(1900, 1, 30))
         => dayPillar[FALSE].value = [stem |-> "gui", branch |-> "hai"]

C12_Witness ==
  /\ pc = "day"
  /\ trueSolarTime = [day |-> DaysFromCivil(1900, 1, 30), ms |-> 23 * 3600000 + 1]
  /\ dayPillar[FALSE] = Returned([stem |-> "gui", branch |-> "hai"])

\* C13: without early-rat split, the day pillar of d + 1 day is the successor
\* of the day pillar of d (stem index + 1 mod 10, branch index + 1 mod 12),
\* and the day pillar of d + 60 days is the day pillar of d.
C13_DayPillarCycles ==
  (pc = "day" /\ dayPillar[FALSE] # None) =>
    /\ dayPillarNext # None =>
         /\ StemIndex(dayPillarNext.value)
              = (StemIndex(dayPillar[FALSE].value) + 1) % 10
         /\ BranchIndex(dayPillarNext.value)
              = (BranchIndex(dayPillar[FALSE].value) + 1) % 12
    /\ dayPillarCycle # None => dayPillarCycle.value = dayPillar[FALSE].value

C13_Witness ==
  /\ pc = "day"
  /\ trueSolarTime = [day |-> DaysFromCivil(1900, 1, 30), ms |-> 1]
  /\ dayPillar[FALSE] # None /\ dayPillarCycle # None
  /\ dayPillarNext = Returned([stem |-> "jia", branch |-> "zi"])

\* C14: getYearPillar(Y) has stem index (Y - 4) mod 10 and branch index
\* (Y - 4) mod 12, the modulo never negative, also for Y < 4; so
\* getYearPillar(Y + 60) = getYearPillar(Y), and 1984 is jia-zi.
C14_YearPillarFormula ==
  pc = "getYearPillar" =>
    /\ yearPillar # None =>
         /\ StemIndex(yearPillar.value) = (effectiveYear - 4) % 10
         /\ BranchIndex(yearPillar.value) = (effectiveYear - 4) % 12
         /\ effectiveYear = 1984
              => yearPillar.value = [stem |-> "jia", branch |-> "zi"]
    /\ (yearPillar # None /\ yearPillarLater # None)
         => yearPillarLater = yearPillar

C14_Witness ==
  /\ pc = "getYearPillar"
  /\ effectiveYear = 0 - 3
  /\ yearPillar = Returned([stem |-> "ding", branch |-> "si"])
  /\ yearPillarLater = yearPillar

\* The Five-Tiger rule: the stem index of the month yin under a year stem.
FiveTigerBase(stem) ==
  CASE stem \in {"jia", "ji"} -> 2
    [] stem \in {"yi", "geng"} -> 4
    [] stem \in {"bing", "xin"} -> 6
    [] stem \in {"ding", "ren"} -> 8
    [] stem \in {"wu", "gui"} -> 0

\* C15: the month stem has index (base[yearStem] + monthOffset) mod 10, the
\* base by the Five-Tiger rule, for all ten year stems and twelve offsets.
C15_FiveTigerMonthStem ==
  (pc = "calculateMonthStem" /\ monthStem # None) =>
    IndexOf(HEAVENLY_STEMS, monthStem.value)
      = (FiveTigerBase(yearStem) + stemOffset) % 10

C15_Witness ==
  /\ pc = "calculateMonthStem"
  /\ yearStem = "ding" /\ stemOffset = 11
  /\ monthStem = Returned("gui")

--------------------------------------------------------------------------
\* True solar time

\* (longitude - 120) * 4 minutes for a longitude in thousandths of a degree
LongitudeOffsetTicks(l) == (l - 120000) * 4 * (TICKS_PER_MINUTE \div 1000)

\* How far, in ticks, the reduced instant lies from the original instant plus
\* (longitudeDiff + eotCorrection) * 60 s.
ReductionError(r) ==
  MsBetween(r.trueSolarTime, r.originalTime) * TICKS_PER_MS
    - (r.longitudeDiff + r.eotCorrection)

\* C16 as stated: the result holds the input instant as originalTime,
\* longitudeDiff is (longitude - 120) * 4 minutes and trueSolarTime is
\* exactly originalTime + (longitudeDiff + eotCorrection) * 60 s.
C16_ReductionExact ==
  solarTimeResult # None =>
    /\ solarTimeResult.value.originalTime = birthTime
    /\ solarTimeResult.value.longitudeDiff = LongitudeOffsetTicks(birthLongitude)
    /\ ReductionError(solarTimeResult.value) = 0

\* C16 amended: as above, but trueSolarTime is originalTime +
\* (longitudeDiff + eotCorrection) * 60 s with the fraction of a millisecond
\* dropped: the two are less than one millisecond apart.
C16_ReductionToMillisecond ==
  solarTimeResult # None =>
    /\ solarTimeResult.value.originalTime = birthTime
    /\ solarTimeResult.value.longitudeDiff = LongitudeOffsetTicks(birthLongitude)
    /\ ReductionError(solarTimeResult.value) \in (1 - TICKS_PER_MS)..(TICKS_PER_MS - 1)

C16_Witness ==
  /\ birthTime = [day |-> DaysFromCivil(2024, 3, 20), ms |-> 12 * MS_PER_HOUR]
  /\ birthLongitude = 116400
  /\ solarTimeResult # None
  /\ ReductionError(solarTimeResult.value) # 0

--------------------------------------------------------------------------
\* Solar terms

\* The jie instants of the years around the date handed to findPrevNextJieQi.
JieInstantsAround(date) ==
  {[index |-> i, moment |-> getSolarTermMoment(y, i, termSkew[i]).value] :
     y \in (getUTCFullYear(date) - 1)..(getUTCFullYear(date) + 1),
     i \in {2 * k : k \in 0..11}}

\* C17: when findPrevNextJieQi returns, both terms have an even index and
\* prev.moment <= input < next.moment; an input that is a jie instant gets
\* that jie as prev.
C17_PrevNextAreJieAroundInput ==
  (pc = "findPrevNextJieQi" /\ prevNext.status = "returned") =>
    LET prev == prevNext.value.prev
        next == prevNext.value.next
    IN  /\ prev.index % 2 = 0 /\ next.index % 2 = 0
        /\ NotAfter(prev.moment, jieQiDate)
        /\ Before(jieQiDate, next.moment)
        /\ \A jie \in JieInstantsAround(jieQiDate) :
             jie.moment = jieQiDate
               => (prev.index = jie.index /\ prev.moment = jie.moment)

C17_Witness ==
  /\ pc = "findPrevNextJieQi"
  /\ hostOffset = 8 * MS_PER_HOUR
  /\ prevNext.status = "returned"
  /\ jieQiDate = getSolarTermMoment(2024, 2, termSkew[2]).value
  /\ prevNext.value.prev.name = "lichun"
  /\ prevNext.value.prev.moment = jieQiDate
  /\ prevNext.value.next.name = "jingzhe"

\* C18: for every year in 1900..2100, getAllSolarTerms returns exactly 24
\* terms, every index 0..23 and every name exactly once, each longitude
\* (285 + 15 * index) mod 360, ordered by strictly increasing instant.
C18_AllTermsComplete ==
  (pc = "getAllSolarTerms" /\ allTerms # None /\ termYear \in 1900..2100) =>
    LET terms == allTerms.value
    IN  /\ Len(terms) = 24
        /\ \A i \in 0..23 :
             Cardinality({k \in DOMAIN terms : terms[k].index = i}) = 1
        /\ \A n \in DOMAIN SOLAR_TERM_NAMES :
             Cardinality({k \in DOMAIN terms :
                            terms[k].name = SOLAR_TERM_NAMES[n]}) = 1
        /\ \A k \in DOMAIN terms :
             terms[k].longitude = (285 + 15 * terms[k].index) % 360
        /\ \A k \in 1..(Len(terms) - 1) :
             Before(terms[k].moment, terms[k + 1].moment)

C18_Witness ==
  /\ pc = "getAllSolarTerms"
  /\ termYear = 2024 /\ termSkew[0] = 0 - SkewLimit
  /\ allTerms # None
  /\ Len(allTerms.value) = 24
  /\ allTerms.value[6].name = "chunfen" /\ allTerms.value[6].longitude = 0

\* C19: getSolarTermMoment fails and produces no instant when the index is
\* below 0 or above 23, and returns an instant for every index in 0..23.
C19_TermIndexChecked ==
  (pc = "getSolarTermMoment" /\ termMoment # None) =>
    /\ (termAsked < 0 \/ termAsked > 23)
         => (termMoment.status = "thrown" /\ "value" \notin DOMAIN termMoment)
    /\ termAsked \in 0..23
         => (termMoment.status = "returned"
             /\ termMoment.value.ms \in 0..(MS_PER_DAY - 1))

C19_Witness ==
  /\ pc = "getSolarTermMoment"
  /\ termAsked = 24
  /\ termMoment.status = "thrown"

C23_YearPillarIgnoresHostZone ==
  (/\ pc \in {"year", "month"}
   /\ LichunOf(solarTerms, getUTCFullYear(trueSolarTime)) # {}) =>
    /\ yearPillar.status = "returned"
    /\ \A offset \in HostOffsets :
         yearPillar = calculateYearPillar(trueSolarTime, solarTerms, offset)

CoversThreeYears(terms, year) ==
  /\ \A k \in 1..(Len(terms) - 1) : Before(terms[k].moment, terms[k + 1].moment)
  /\ \A y \in (year - 1)..(year + 1) : LichunOf(terms, y) # {}

C26_MissingTermsFail ==
  /\ (/\ pc \in {"year", "month"}
      /\ LichunOf(solarTerms, getUTCFullYear(trueSolarTime)) = {})
       => yearPillar.status = "thrown"
  /\ (pc = "month" /\ JieNotAfter(solarTerms, trueSolarTime) = {})
       => monthPillar.status = "thrown"

\* The list brackets the instant: it holds a jie at or before the instant
\* and, after the instant, the jie that follows the latest of those.
Brackets(terms, t) ==
  \E k \in JieNotAfter(terms, t) :
    /\ \A j \in JieNotAfter(terms, t) : NotAfter(terms[j].moment, terms[k].moment)
    /\ \E n \in DOMAIN terms :
         /\ terms[n].index = (terms[k].index + 2) % 24
         /\ Before(t, terms[n].moment)

\* C27: calculateMonthPillar returns a pillar only when the list brackets
\* the instant; when the list ends before the instant it fails.
C27_MonthPillarNeedsBracket ==
  pc = "month" =>
    /\ monthPillar.status \in {"returned", "thrown"}
    /\ monthPillar.status = "returned" => Brackets(solarTerms, trueSolarTime)

\* The jie instants of the three years findPrevNextJieQi gathers when it
\* reads the year of the date under the offset.
JieInstantsGathered(date, offset) ==
  {[index |-> i, moment |-> getSolarTermMoment(y, i, termSkew[i]).value] :
     y \in (getFullYear(date, offset) - 1)..(getFullYear(date, offset) + 1),
     i \in {2 * k : k \in 0..11}}

\* C28: the two terms findPrevNextJieQi returns are consecutive jie: the
\* index of next is (index of prev + 2) mod 24 and no jie instant of the
\* gathered years lies strictly between them; the result is the same
\* whether the year of the instant is read in host-local time or in UTC.
C28_PrevNextConsecutive ==
  (pc = "findPrevNextJieQi" /\ prevNext # None) =>
    /\ prevNext = findPrevNextJieQi(jieQiDate, 0, termSkew)
    /\ prevNext.status = "returned" =>
         LET prev == prevNext.value.prev
             next == prevNext.value.next
         IN  /\ next.index = (prev.index + 2) % 24
             /\ \A jie \in JieInstantsGathered(jieQiDate, hostOffset)
                           \cup JieInstantsGathered(jieQiDate, 0) :
                  ~(Before(prev.moment, jie.moment) /\ Before(jie.moment, next.moment))

C28_Witness ==
  /\ pc = "findPrevNextJieQi"
  /\ getFullYear(jieQiDate, hostOffset) = 2023
  /\ getUTCFullYear(jieQiDate) = 2024
  /\ prevNext.status = "returned"
  /\ prevNext.value.prev.name = "daxue"
  /\ prevNext.value.next.name = "xiaohan"

\* C29: at every break year of deltaT (1900, 1920, 1941, 1961, 1986, 2005,
\* 2050, 2150) the polynomial that ends at the year and the one that starts
\* there differ by less than 5 seconds.
C29_PiecesAgreeAtBreaks ==
  (/\ pc = "deltaT" /\ deltaAt # None /\ deltaBefore # None
   /\ deltaYear \in {1900, 1920, 1941, 1961, 1986, 2005, 2050, 2150}) =>
    LET gap == deltaAt.value - deltaBefore.value
    IN  gap < 5 * 1000000 /\ 0 - gap < 5 * 1000000

\* C30: no call modifies its arguments: calculateYearPillar and
\* calculateMonthPillar leave the caller's term list and instant as they
\* were, isDSTActive and applyDSTCorrection the Date they are handed,
\* calculateTrueSolarTime its standard time.
C30_ArgumentsUnchanged ==
  [][/\ solarTerms' = solarTerms
     /\ trueSolarTime' = trueSolarTime
     /\ dstDate' = dstDate
     /\ birthTime' = birthTime]_vars

C30_Witness ==
  /\ pc = "month"
  /\ monthPillar.status = "returned"
  /\ Len(solarTerms) = 3 * 24
  /\ Before(solarTerms[3 * 24].moment, solarTerms[1].moment)
====
